---------------------------- MODULE Spec2Model ----------------------------
(***************************************************************************)
(* A model of the container dispatch and execution engine of rubico:       *)
(* map.pool (src/index.js mapPoolArray, src/unnamed/part_001 setMapPool),  *)
(* map and filter over the container shapes, reduce with its cancellable   *)
(* asynchronous variant, the reducers built by map and filter, the         *)
(* configuration call and the dispatch of the front-ends (src/index.js,    *)
(* src/map.js, src/filter.js), and two calls of one configured map.pool.   *)
(*                                                                         *)
(* A promise is modelled by its state "pending" / "resolved" / "rejected". *)
(* A job of the host's queue (the synchronous run of a coroutine between   *)
(* two awaits, a then-callback) is atomic: while a coroutine is running    *)
(* no promise settles and no callback runs.                                *)
(***************************************************************************)
EXTENDS Integers, Sequences, FiniteSets, TLC

VARIABLES pool, mp, red, tr, fl, fe, iso, ser, rc

vars == <<pool, mp, red, tr, fl, fe, iso, ser, rc>>

(* ------------------------------ bounds --------------------------------- *)
MaxLen == 3

MaxLimit == 2

Vals == {"a", "b"}

SetVals == {"a", "b", "c"}

Idle == [pc |-> "idle"]

SeqsUpTo(S, n) == UNION {[1..k -> S] : k \in 0..n}

IsInjective(s) == \A i, j \in DOMAIN s : s[i] = s[j] => i = j

(* the inputs of a shape, in iteration order: a set holds no element twice *)
Inputs(shape) ==
  IF shape = "set"
    THEN {s \in SeqsUpTo(SetVals, MaxLen) : IsInjective(s)}
    ELSE SeqsUpTo(Vals, MaxLen)

(* the resolved value of the mapper applied to v *)
F(v) == <<"f", v>>

(* the error the application to the k-th element throws or rejects with *)
ErrorOf(k) == <<"error", k>>

(* ======================================================================= *)
(*                               map.pool                                  *)
(* ======================================================================= *)

(* promises.size >= size, the test that makes the scheduler wait *)
PoolFullOffByOne(promises, size) == Cardinality(promises) > size

PoolFull(promises, size) == Cardinality(promises) >= size

(* y.push(p) / y.push(yi): the output slot of the element dispatched now *)
PushFront(y, entry) == <<entry>> \o y

Push(y, entry) == Append(y, entry)

(* the value Promise.all(y) resolves to *)
AllValues(y) ==
  [k \in DOMAIN y |-> IF y[k][1] = "promise" THEN F(pool.x[y[k][2]]) ELSE y[k][2]]

(* Promise.race(promises) at the moment it is created: of the members of   *)
(* the in-flight set only a rejected one can be settled already, since a   *)
(* resolved one has deleted itself                                         *)
RaceAtCreation(p, promises) ==
  IF \E k \in promises : p[k] = "rejected" THEN "err" ELSE "none"

(* Promise.all(ps) over the promises ps, given the states p *)
AllOutcomeAllSettled(p, ps) ==
  IF \A k \in ps : p[k] \in {"resolved", "rejected"} THEN "ok" ELSE "none"

AllOutcome(p, ps) ==
  IF \E k \in ps : p[k] = "rejected" THEN "err"
  ELSE IF \A k \in ps : p[k] = "resolved" THEN "ok"
  ELSE "none"

(* the error a Promise.race or Promise.all over ps is rejected with when    *)
(* it is created over promises already rejected: that of the first one in  *)
(* iteration order                                                         *)
FirstRejected(p, ps) ==
  LET rejected == {k \in ps : p[k] = "rejected"}
  IN IF rejected = {} THEN <<>>
     ELSE ErrorOf(CHOOSE k \in rejected : \A j \in rejected : k <= j)

PromisesOf(y) == {y[k][2] : k \in {j \in DOMAIN y : y[j][1] = "promise"}}

(* the container the caller's promise resolves to: the array of            *)
(* mapPoolArray itself, or res => new Set(res), res => new Map(res)        *)
RebuildAsArray(shape, res) == [kind |-> "array", members |-> res]

Rebuild(shape, res) ==
  [kind |-> shape,
   members |-> IF shape = "array" THEN res ELSE {res[k] : k \in DOMAIN res}]

(* the implementation a container is handed to: "array" is mapPoolArray,   *)
(* which map.pool also runs for a set and a key-value map, "set" is        *)
(* setMapPool                                                              *)
PoolShapes(variant) == IF variant = "array" THEN {"array", "set", "map"} ELSE {"set"}

(* the state when the scheduler is entered *)
PoolStart(variant, size, shape, x) ==
  [ pc       |-> IF variant = "set" THEN "syncApply" ELSE "check",
    variant  |-> variant,
    shape    |-> shape,
    container |-> <<>>,
    x        |-> x,
    size     |-> size,
    i        |-> 1,
    yi       |-> [k \in DOMAIN x |-> "none"],
    p        |-> [k \in DOMAIN x |-> "none"],
    promises |-> {},
    y        |-> <<>>,
    result   |-> {},
    race     |-> {},
    raceOut  |-> "none",
    all      |-> {},
    allOut   |-> "none",
    isAsync  |-> variant = "array",
    value    |-> <<>>,
    waitErr  |-> <<>>,
    error    |-> <<>>,
    order    |-> <<>> ]

PoolInit ==
  /\ \E variant \in {"array", "set"}, size \in 1..MaxLimit :
     \E shape \in PoolShapes(variant) :
     \E x \in Inputs(shape) :
       pool = PoolStart(variant, size, shape, x)
  /\ mp = Idle /\ red = Idle /\ tr = Idle
  /\ fl = Idle /\ fe = Idle /\ iso = Idle
  /\ ser = Idle /\ rc = Idle

OtherThanPool == UNCHANGED <<mp, red, tr, fl, fe, iso, ser, rc>>

(* setMapPool: the synchronous prelude, one iteration of its while loop *)
SetPoolSyncStep ==
  /\ pool.pc = "syncApply"
  /\ IF pool.i > Len(pool.x)
       THEN pool' = [pool EXCEPT !.pc = "done", !.value = pool.result,
                                 !.container = [kind |-> "set", members |-> pool.result]]
       ELSE \E mode \in {"sync", "async", "throw"} :
              CASE mode = "sync" ->
                     pool' = [pool EXCEPT !.result = @ \cup {F(pool.x[pool.i])},
                                          !.i = @ + 1]
                [] mode = "async" ->
                     pool' = [pool EXCEPT !.yi[pool.i] = "pending",
                                          !.p[pool.i] = "pending",
                                          !.promises = {pool.i},
                                          !.isAsync = TRUE,
                                          !.i = @ + 1,
                                          !.pc = "check"]
                [] mode = "throw" ->
                     pool' = [pool EXCEPT !.pc = "failed",
                                          !.yi[pool.i] = "threw",
                                          !.error = ErrorOf(pool.i)]
  /\ OtherThanPool

(* the head of the scheduling loop: the loop test and the size test *)
PoolCheck ==
  /\ pool.pc = "check"
  /\ IF pool.i > Len(pool.x)
       THEN IF pool.variant = "array"
              THEN LET out == AllOutcome(pool.p, PromisesOf(pool.y)) IN
                   pool' = [pool EXCEPT !.pc = "awaitAll",
                                        !.all = PromisesOf(pool.y),
                                        !.allOut = out,
                                        !.waitErr = FirstRejected(pool.p, PromisesOf(pool.y))]
              ELSE IF Cardinality(pool.promises) > 0
                     THEN pool' = [pool EXCEPT !.pc = "awaitAll",
                                               !.all = pool.promises,
                                               !.allOut = AllOutcome(pool.p, pool.promises),
                                               !.waitErr = FirstRejected(pool.p, pool.promises)]
                     ELSE pool' = [pool EXCEPT
                                     !.pc = "done", !.value = pool.result,
                                     !.container = [kind |-> "set", members |-> pool.result]]
       ELSE IF PoolFull(pool.promises, pool.size)
              THEN pool' = [pool EXCEPT !.pc = "awaitRace",
                                        !.race = pool.promises,
                                        !.raceOut = RaceAtCreation(pool.p, pool.promises),
                                        !.waitErr = FirstRejected(pool.p, pool.promises)]
              ELSE pool' = [pool EXCEPT !.pc = "apply"]
  /\ OtherThanPool

(* const yi = f(xi) and the bookkeeping of its result *)
PoolApply ==
  /\ pool.pc = "apply"
  /\ \E mode \in {"sync", "async", "throw"} :
       CASE mode = "sync" ->
              IF pool.variant = "array"
                THEN pool' = [pool EXCEPT !.y = Push(@, <<"value", F(pool.x[pool.i])>>),
                                          !.i = @ + 1, !.pc = "check"]
                ELSE pool' = [pool EXCEPT !.result = @ \cup {F(pool.x[pool.i])},
                                          !.i = @ + 1, !.pc = "check"]
         [] mode = "async" ->
              pool' = [pool EXCEPT !.yi[pool.i] = "pending",
                                   !.p[pool.i] = "pending",
                                   !.promises = @ \cup {pool.i},
                                   !.y = IF pool.variant = "array"
                                           THEN Push(@, <<"promise", pool.i>>) ELSE @,
                                   !.i = @ + 1, !.pc = "check"]
         [] mode = "throw" ->
              pool' = [pool EXCEPT !.pc = "failed",
                                   !.yi[pool.i] = "threw",
                                   !.error = ErrorOf(pool.i)]
  /\ OtherThanPool

(* promises.delete(p), run by the continuation of p itself *)
DeleteNothing(promises, k) == promises

Delete(promises, k) == promises \ {k}

(* Promise.race(promises) settles with the first of its entries to settle, *)
(* whichever was added first                                               *)
SettlesFirstSubmitted(race, k) == k \in race /\ \A j \in race : k <= j

Settles(race, k) == k \in race

(* no job of the pool's coroutine is running *)
PoolSuspended == pool.pc \in {"awaitRace", "awaitAll", "done", "failed"}

(* the promise returned by the mapper for element k settles *)
SettleYi(k) ==
  /\ PoolSuspended
  /\ pool.yi[k] = "pending"
  /\ \E outcome \in {"resolved", "rejected"} :
       pool' = [pool EXCEPT !.yi[k] = outcome, !.order = Append(@, k)]
  /\ OtherThanPool

(* the reaction of p = yi.then(res => { promises.delete(p); ... }) *)
RunThen(k) ==
  /\ PoolSuspended
  /\ pool.yi[k] \in {"resolved", "rejected"}
  /\ pool.p[k] = "pending"
  /\ LET ok       == pool.yi[k] = "resolved"
         p2       == [pool.p EXCEPT ![k] = pool.yi[k]]
         promises == IF ok THEN Delete(pool.promises, k) ELSE pool.promises
         raceOut  == IF pool.pc = "awaitRace" /\ pool.raceOut = "none" /\ Settles(pool.race, k)
                       THEN (IF ok THEN "ok" ELSE "err") ELSE pool.raceOut
         allOut   == IF pool.pc = "awaitAll" /\ pool.allOut = "none" /\ k \in pool.all
                       THEN AllOutcome(p2, pool.all) ELSE pool.allOut
     IN pool' = [pool EXCEPT !.p = p2,
                             !.promises = promises,
                             !.result = IF ok /\ pool.variant = "set"
                                          THEN @ \cup {F(pool.x[k])} ELSE @,
                             !.raceOut = raceOut,
                             !.allOut = allOut,
                             !.waitErr = IF ~ok /\ (raceOut # pool.raceOut \/ allOut # pool.allOut)
                                           THEN ErrorOf(k) ELSE @]
  /\ OtherThanPool

(* await Promise.race(promises) continues, or throws *)
ResumeRace ==
  /\ pool.pc = "awaitRace"
  /\ pool.raceOut # "none"
  /\ pool' = [pool EXCEPT !.pc = IF pool.raceOut = "ok" THEN "apply" ELSE "failed",
                          !.race = {}, !.raceOut = "none",
                          !.error = IF pool.raceOut = "ok" THEN @ ELSE pool.waitErr]
  /\ OtherThanPool

(* the joint wait at the end continues, or throws *)
ResumeAll ==
  /\ pool.pc = "awaitAll"
  /\ pool.allOut # "none"
  /\ pool' = [pool EXCEPT !.pc = IF pool.allOut = "ok" THEN "done" ELSE "failed",
                          !.error = IF pool.allOut = "ok" THEN @ ELSE pool.waitErr,
                          !.value = IF pool.allOut # "ok" THEN @
                                    ELSE IF pool.variant = "array" THEN AllValues(pool.y)
                                    ELSE pool.result,
                          !.container =
                            IF pool.allOut # "ok" THEN @
                            ELSE IF pool.variant = "array"
                                   THEN Rebuild(pool.shape, AllValues(pool.y))
                                   ELSE [kind |-> "set", members |-> pool.result]]
  /\ OtherThanPool

PoolNext ==
  \/ SetPoolSyncStep
  \/ PoolCheck
  \/ PoolApply
  \/ \E k \in 1..(MaxLen + 1) : k \in DOMAIN pool.x /\ SettleYi(k)
  \/ \E k \in 1..(MaxLen + 1) : k \in DOMAIN pool.x /\ RunThen(k)
  \/ ResumeRace
  \/ ResumeAll

SpecPool == PoolInit /\ [][PoolNext]_vars

(* the limits a scheduler is entered with: map.pool of index.js rejects a  *)
(* size below 1 before mapPoolArray is reached; setMapPool takes its       *)
(* concurrency as given, and map.pool of src/map.js passes the limit on    *)
(* without a test                                                          *)
AcceptedLimits(variant) == IF variant = "array" THEN 1..MaxLimit ELSE 0..MaxLimit

PoolInitAccepted ==
  /\ \E variant \in {"array", "set"} :
     \E size \in AcceptedLimits(variant) :
     \E shape \in PoolShapes(variant) :
     \E x \in Inputs(shape) :
       pool = PoolStart(variant, size, shape, x)
  /\ mp = Idle /\ red = Idle /\ tr = Idle
  /\ fl = Idle /\ fe = Idle /\ iso = Idle
  /\ ser = Idle /\ rc = Idle

(* the job queue runs every job that is ready, and a promise that settles  *)
(* does so after finitely many turns                                       *)
SpecPoolFair == PoolInitAccepted /\ [][PoolNext]_vars /\ WF_vars(PoolNext)


(* ======================================================================= *)
(*                     map(f)(x) over the container shapes                 *)
(* ======================================================================= *)

(* the shapes map routes to an implementation that walks the container at  *)
(* the call, and the two it answers with a lazy sequence                   *)
ArrayLike == {"array", "string", "typedArray"}

Keyed == {"set", "map", "object"}

Lazy == {"iterable", "asyncIterable"}

Modes == {"sync", "async", "throw"}

(* the mapper applications made by one synchronous walk over x: those up   *)
(* to the first that throws                                                *)
AppliedUntilPromise(x, modes) ==
  IF \E k \in DOMAIN x : modes[k] \in {"throw", "async", "promise"}
    THEN 1..(CHOOSE k \in DOMAIN x :
                /\ modes[k] \in {"throw", "async", "promise"}
                /\ \A j \in 1..(k - 1) : modes[j] \notin {"throw", "async", "promise"})
    ELSE DOMAIN x

Applied(x, modes) ==
  IF \E k \in DOMAIN x : modes[k] = "throw"
    THEN 1..(CHOOSE k \in DOMAIN x :
                /\ modes[k] = "throw"
                /\ \A j \in 1..(k - 1) : modes[j] # "throw")
    ELSE DOMAIN x

(* isAsync of mapArray / promises.length > 0 of mapSet, mapMap, mapObject *)
AnyPromiseInverted(modes) == \A k \in DOMAIN modes : modes[k] # "async"

AnyPromise(modes) == \E k \in DOMAIN modes : modes[k] = "async"

(* the slot of a point that is a promise still to be resolved *)
Hole == <<"hole">>

(* the array y of points built by x.map: a value, or a promise (a hole in  *)
(* the array of resolved values)                                           *)
Points(x, modes) ==
  [k \in DOMAIN x |-> IF modes[k] = "sync" THEN F(x[k]) ELSE Hole]

(* Promise.all(y): the value of the promise at index k is stored at        *)
(* index k of the array of resolved values                                 *)
StoreAtFirstHole(values, k, v) ==
  LET h == CHOOSE j \in DOMAIN values :
             values[j] = Hole /\ \A i \in 1..(j - 1) : values[i] # Hole
  IN [values EXCEPT ![h] = v]

StoreAt(values, k, v) == [values EXCEPT ![k] = v]

(* what map(f)(x) returns for a shape: mapAsyncIterable and mapIterable    *)
(* return a generator object, the others a container or a promise of one   *)
ReturnKind(shape, modes) ==
  CASE shape = "iterable" -> "iterator"
    [] shape = "asyncIterable" -> "asyncIterator"
    [] OTHER -> IF AnyPromise(modes) THEN "promise" ELSE "value"

MapInit ==
  /\ \E shape \in ArrayLike \cup Keyed \cup Lazy :
     \E x \in Inputs(shape) :
       /\ mp = [ pc       |-> "call",
                 shape    |-> shape,
                 x        |-> x,
                 modes    |-> <<>>,
                 st       |-> [k \in DOMAIN x |-> "none"],
                 ran      |-> {},
                 inverted |-> FALSE,
                 out      |-> {},
                 values   |-> <<>>,
                 returned |-> "none",
                 outcome  |-> "none",
                 value    |-> <<>>,
                 error    |-> <<>> ]
  /\ pool = Idle /\ red = Idle /\ tr = Idle
  /\ fl = Idle /\ fe = Idle /\ iso = Idle
  /\ ser = Idle /\ rc = Idle

OtherThanMap == UNCHANGED <<pool, red, tr, fl, fe, iso, ser, rc>>

(* the key of the k-th entry of a key-value map *)
KeyName(k) == <<"k1", "k2", "k3", "k4", "k5">>[k]

(* the entry a keyed shape inserts for its k-th element: mapSet adds       *)
(* f(xi); mapObject stores f(x[k]) under k; mapMap hands the entry         *)
(* [key, value] to fn and spreads the result into y.set, which takes its   *)
(* first two items as key and value                                        *)
Entry(shape, x, k) ==
  CASE shape = "set" -> F(x[k])
    [] shape = "map" -> LET res == F(<<KeyName(k), x[k]>>) IN <<res[1], res[2]>>
    [] OTHER -> <<k, F(x[k])>>

(* y.add(res), y.set(...res), y[k] = res: a key of a key-value map holds   *)
(* the value set last                                                      *)
Insert(shape, y, entry) ==
  IF shape = "map" THEN {e \in y : e[1] # entry[1]} \cup {entry}
  ELSE y \cup {entry}

(* y after the insertions of the elements ks, made in the order of x *)
RECURSIVE InsertAll(_, _, _, _)
InsertAll(shape, x, ks, k) ==
  IF k = 0 THEN {}
  ELSE IF k \in ks
    THEN Insert(shape, InsertAll(shape, x, ks, k - 1), Entry(shape, x, k))
    ELSE InsertAll(shape, x, ks, k - 1)

(* map(f)(x) for a shape walked at the call: mapArray, mapIterableToArray  *)
(* (string, typed array), mapSet, mapMap, mapObject                        *)
MapCallEager ==
  /\ mp.pc = "call"
  /\ mp.shape \in ArrayLike \cup Keyed
  /\ \E modes \in [DOMAIN mp.x -> Modes] :
       LET applied == Applied(mp.x, modes)
           threw   == \E k \in DOMAIN mp.x : modes[k] = "throw"
           st      == [k \in DOMAIN mp.x |->
                         IF k \in applied /\ modes[k] = "async" THEN "pending" ELSE "none"]
           out     == IF mp.shape \in Keyed
                        THEN InsertAll(mp.shape, mp.x,
                                       {j \in applied : modes[j] = "sync"}, Len(mp.x))
                        ELSE {}
           kind    == ReturnKind(mp.shape, modes)
       IN mp' = [mp EXCEPT
                   !.pc = IF threw THEN "thrown" ELSE "returned",
                   !.modes = [k \in applied |-> modes[k]],
                   !.st = st,
                   !.out = out,
                   !.values = IF mp.shape \in ArrayLike /\ ~threw
                                THEN Points(mp.x, modes) ELSE <<>>,
                   !.returned = IF threw THEN "thrown" ELSE kind,
                   !.outcome = IF threw \/ kind = "promise" THEN "none" ELSE "resolved",
                   !.value = IF threw \/ kind = "promise" THEN <<>>
                             ELSE IF mp.shape \in Keyed THEN out
                             ELSE Points(mp.x, modes),
                   !.error = IF threw THEN ErrorOf(Cardinality(applied)) ELSE <<>>]
  /\ OtherThanMap

(* map(f)(x) for a generator or an asynchronous generator: nothing is      *)
(* pulled, a new generator object is returned                              *)
MapCallLazy ==
  /\ mp.pc = "call"
  /\ mp.shape \in Lazy
  /\ mp' = [mp EXCEPT !.pc = "returned", !.returned = ReturnKind(mp.shape, <<>>)]
  /\ OtherThanMap

(* one pull of the returned generator: yield fn(xi) *)
MapPull ==
  /\ mp.pc = "returned"
  /\ mp.shape \in Lazy
  /\ Len(mp.modes) < Len(mp.x)
  /\ \A k \in DOMAIN mp.modes : mp.modes[k] # "throw"
  /\ \E mode \in Modes :
       mp' = [mp EXCEPT !.modes = Append(@, mode),
                        !.st[Len(mp.modes) + 1] = IF mode = "async" THEN "pending" ELSE "none"]
  /\ OtherThanMap

(* the promise returned by the mapper for element k settles; inverted     *)
(* records that one settled while an earlier element's was still pending  *)
MapSettle(k) ==
  /\ mp.pc \in {"returned", "thrown"}
  /\ mp.st[k] = "pending"
  /\ \E outcome \in {"resolved", "rejected"} :
       mp' = [mp EXCEPT !.st[k] = outcome,
                        !.inverted = @ \/ \E j \in 1..(k - 1) : mp.st[j] = "pending"]
  /\ OtherThanMap

(* the reaction to the settled promise k: Promise.all(y) stores the value  *)
(* in slot k (array-like), or the insertion continuation runs (keyed); the *)
(* first rejection rejects the aggregate                                   *)
MapThen(k) ==
  /\ mp.pc = "returned"
  /\ mp.shape \in ArrayLike \cup Keyed
  /\ mp.st[k] \in {"resolved", "rejected"}
  /\ k \notin mp.ran
  /\ mp' = [mp EXCEPT
              !.ran = @ \cup {k},
              !.out = IF mp.st[k] = "resolved" /\ mp.shape \in Keyed
                        THEN Insert(mp.shape, @, Entry(mp.shape, mp.x, k)) ELSE @,
              !.values = IF mp.st[k] = "resolved" /\ mp.shape \in ArrayLike
                           THEN StoreAt(@, k, F(mp.x[k])) ELSE @,
              !.outcome = IF @ = "none" /\ mp.st[k] = "rejected" THEN "rejected" ELSE @,
              !.error = IF mp.outcome = "none" /\ mp.st[k] = "rejected" THEN ErrorOf(k) ELSE @]
  /\ OtherThanMap

(* every reaction has run and none rejected: the aggregate resolves, for a *)
(* keyed shape through Promise.all(promises).then(() => y)                 *)
MapResolve ==
  /\ mp.pc = "returned"
  /\ mp.returned = "promise"
  /\ mp.outcome = "none"
  /\ \A k \in DOMAIN mp.x : mp.modes[k] = "async" => (k \in mp.ran /\ mp.st[k] = "resolved")
  /\ mp' = [mp EXCEPT !.outcome = "resolved",
                      !.value = IF mp.shape \in Keyed THEN mp.out
                                ELSE mp.values]
  /\ OtherThanMap

MapNext ==
  \/ MapCallEager
  \/ MapCallLazy
  \/ MapPull
  \/ \E k \in 1..(MaxLen + 1) : k \in DOMAIN mp.x /\ MapSettle(k)
  \/ \E k \in 1..(MaxLen + 1) : k \in DOMAIN mp.x /\ MapThen(k)
  \/ MapResolve

SpecMap == MapInit /\ [][MapNext]_vars

(* ======================================================================= *)
(*                          reduce(fn, init)(x)                            *)
(* ======================================================================= *)

(* values are terms: an element, the undefined value, a given initial      *)
(* value, the reducer applied to an accumulator and an element, and the    *)
(* promise a reducer application returned while it is pending              *)
V(v) == <<"v", v>>

Undef == <<"undefined">>

InitVal == <<"init">>

PromiseTerm == <<"promise">>

R(acc, xi) == <<"r", acc, xi>>

RElems == {V(v) : v \in Vals} \cup {Undef}

(* the shapes reduce accepts; an array's iterator has no return method, a  *)
(* generator's has, and reduceObject walks the object with a generator     *)
SyncShapes == {"array", "iterable", "object"}

HasReturn(shape) == shape \in {"iterable", "object"}

(* const isUndefined = value => typeof value == 'undefined' *)
IsUndefinedNever(v) == FALSE

IsUndefined(v) == v = Undef

(* iter.next() on the iterator that has handed out pos elements *)
IterDone(x, pos, closed) == closed \/ pos >= Len(x)

IterValue(x, pos, closed) == IF IterDone(x, pos, closed) THEN Undef ELSE x[pos + 1]

(* const y0 = isUndefined(possiblyX0) ? iter.next().value : possiblyX0 *)
Y0AlwaysFirst(x0, x) == IterValue(x, 0, FALSE)

Y0(x0, x) == IF IsUndefined(x0) THEN IterValue(x, 0, FALSE) ELSE x0

(* where the fold goes after a reducer application: a promise is waited    *)
(* for before the next element is taken                                    *)
AfterApplyNoWait(pc, mode) == IF pc = "first" THEN "syncLoop" ELSE pc

AfterApply(pc, mode) ==
  IF mode = "async" THEN "awaitStep"
  ELSE IF pc = "first" THEN "syncLoop" ELSE pc

(* the state when reduce(fn, init)(x) is entered *)
RedStart(shape, x, init) ==
  [ pc        |-> "call",
    shape     |-> shape,
    x         |-> x,
    init      |-> init,
    pos       |-> 0,
    closed    |-> FALSE,
    y         |-> Undef,
    stepVal   |-> Undef,
    inflight  |-> 0,
    calls     |-> <<>>,
    inCall    |-> TRUE,
    returned  |-> "none",
    hasCancel |-> FALSE,
    fold      |-> "none",
    foldValue |-> Undef,
    outcome   |-> "none",
    value     |-> Undef,
    error     |-> "none",
    cancelled |-> FALSE,
    foldAtCancel |-> "none" ]

RedInit ==
  /\ \E shape \in SyncShapes \cup {"asyncIterable"},
        init \in {"none", "value", "initializer", "asyncInitializer"} :
     \E x \in SeqsUpTo(RElems, MaxLen) :
       red = RedStart(shape, x, init)
  /\ pool = Idle /\ mp = Idle /\ tr = Idle
  /\ fl = Idle /\ fe = Idle /\ iso = Idle
  /\ ser = Idle /\ rc = Idle

OtherThanReduce == UNCHANGED <<pool, mp, tr, fl, fe, iso, ser, rc>>

(* Promise.race([fold, cancelToken]): the returned promise takes a         *)
(* settlement only while it is pending, so the first of the two to settle  *)
(* decides it; without a cancel token it is the fold's own promise         *)
AdoptsAlways(settled) == TRUE

Adopts(settled) == settled = "none"

Settle(r, outcome, v, err) ==
  IF Adopts(r.outcome)
    THEN [r EXCEPT !.outcome = outcome, !.value = v, !.error = err]
    ELSE r

(* the fold ends with a value: returned by the call when it ends inside    *)
(* it, else the resolution of the fold's promise                           *)
Finish(r, v) ==
  [Settle(r, "resolved", v, "none")
     EXCEPT !.pc = "done", !.fold = "resolved", !.foldValue = v,
            !.returned = IF r.inCall THEN "value" ELSE @,
            !.inCall = FALSE]

(* the fold ends with an error: thrown by the call, or a rejection *)
Fail(r, err) ==
  [Settle(r, "rejected", Undef, err)
     EXCEPT !.pc = "failed", !.fold = "rejected",
            !.returned = IF r.inCall THEN "thrown" ELSE @,
            !.inCall = FALSE]

(* the fold suspends: the call, if still running, returns a promise *)
Suspend(r, pc) ==
  [r EXCEPT !.pc = pc, !.inCall = FALSE,
            !.returned = IF r.inCall THEN "promise" ELSE @]

(* reduceIterable up to its first reducer application *)
Seed(r, x0) ==
  LET y0   == Y0(x0, r.x)
      pos1 == IF IsUndefined(x0) /\ Len(r.x) >= 1 THEN 1 ELSE 0
  IN IF IsUndefined(y0) THEN Fail(r, "empty")
     ELSE IF IterDone(r.x, pos1, FALSE) THEN Finish([r EXCEPT !.pos = pos1], y0)
     ELSE [r EXCEPT !.pc = "first", !.pos = pos1 + 1, !.y = y0]

(* the initial value as the call has it: const x0 = isFunction(init) ?     *)
(* init(x) : init                                                          *)
X0(init) == IF init = "none" THEN Undef ELSE InitVal

(* reduce(fn, init)(x) for an iterable or a keyed object: the initial      *)
(* value, then reduceIterable, or the wait for a pending initial value     *)
RedCall ==
  /\ red.pc = "call"
  /\ red.shape \in SyncShapes
  /\ red' = IF red.init = "asyncInitializer"
              THEN Suspend(red, "awaitInit")
              ELSE Seed(red, X0(red.init))
  /\ OtherThanReduce

(* the pending initial value resolves: res => reduceIterable(fn, res, x) *)
RedInitResolve ==
  /\ red.pc = "awaitInit"
  /\ red.shape \in SyncShapes
  /\ red' = Seed(red, X0(red.init))
  /\ OtherThanReduce

(* one reducer application fn(y, xi) with its result *)
Apply(r, mode) ==
  LET e    == r.x[r.pos]
      call == [acc |-> r.y, elem |-> e, at |-> r.pos, pending |-> r.inflight]
      r1   == [r EXCEPT !.calls = Append(@, call)]
  IN CASE mode = "throw" -> Fail(r1, "reducer")
       [] mode = "sync" ->
            [r1 EXCEPT !.y = R(r.y, e), !.pc = AfterApply(r.pc, mode)]
       [] mode = "async" ->
            LET next == AfterApply(r.pc, mode)
                r2   == [r1 EXCEPT !.y = PromiseTerm,
                                   !.stepVal = R(r.y, e),
                                   !.inflight = @ + 1,
                                   !.closed = @ \/ (r.pc = "syncLoop" /\ HasReturn(r.shape))]
            IN IF next = "awaitStep" THEN Suspend(r2, next) ELSE [r2 EXCEPT !.pc = next]

(* let y = fn(y0, value), line 1193 *)
RedFirst ==
  /\ red.pc = "first"
  /\ \E mode \in Modes : red' = Apply(red, mode)
  /\ OtherThanReduce

(* one round of for (const xi of iter), in reduceIterable ("syncLoop",     *)
(* whose return inside the loop closes an iterator that has a return       *)
(* method) and in asyncReduceIterator ("asyncLoop")                        *)
RedLoop ==
  /\ red.pc \in {"syncLoop", "asyncLoop"}
  /\ red.shape \in SyncShapes
  /\ IF IterDone(red.x, red.pos, red.closed)
       THEN red' = Finish(red, red.y)
       ELSE \E mode \in Modes : red' = Apply([red EXCEPT !.pos = @ + 1], mode)
  /\ OtherThanReduce

(* the promise of the reducer application in progress settles *)
RedStepSettle ==
  /\ red.pc = "awaitStep"
  /\ red.shape \in SyncShapes
  /\ \E outcome \in {"resolved", "rejected"} :
       red' = IF outcome = "resolved"
                THEN [red EXCEPT !.pc = "asyncLoop", !.y = red.stepVal, !.inflight = @ - 1]
                ELSE Fail([red EXCEPT !.inflight = @ - 1], "reducer")
  /\ OtherThanReduce

(* reduce(fn, init)(x) for an asynchronous iterable: the promise returned  *)
(* is the race of the fold against the cancel token and carries cancel;    *)
(* reduceAsyncIterable runs up to its first await iter.next()              *)
RedCallAsync ==
  /\ red.pc = "call"
  /\ red.shape = "asyncIterable"
  /\ red' = [Suspend(red, IF red.init = "asyncInitializer" THEN "awaitInit"
                          ELSE IF IsUndefined(X0(red.init)) THEN "nextSeed"
                          ELSE "nextFirst")
               EXCEPT !.hasCancel = TRUE, !.y = X0(red.init)]
  /\ OtherThanReduce

(* the pending initial value resolves: res => reduceAsyncIterable(...) *)
RedInitResolveAsync ==
  /\ red.pc = "awaitInit"
  /\ red.shape = "asyncIterable"
  /\ red' = [red EXCEPT !.pc = IF IsUndefined(X0(red.init)) THEN "nextSeed" ELSE "nextFirst",
                        !.y = X0(red.init)]
  /\ OtherThanReduce

(* (await iter.next()).value arrives as the initial accumulator *)
RedNextSeed ==
  /\ red.pc = "nextSeed"
  /\ LET y0 == Y0(Undef, red.x) IN
     red' = IF IsUndefined(y0) THEN Fail(red, "empty")
            ELSE [red EXCEPT !.pc = "nextFirst", !.pos = 1, !.y = y0]
  /\ OtherThanReduce

(* const { value, done } = await iter.next() arrives, and each iteration   *)
(* of for await (const xi of iter): the fold returns, or the reducer is    *)
(* applied and awaited                                                     *)
RedNextElement ==
  /\ red.pc \in {"nextFirst", "nextLoop"}
  /\ IF IterDone(red.x, red.pos, FALSE)
       THEN red' = Finish(red, red.y)
       ELSE \E mode \in Modes :
              red' = Apply([red EXCEPT !.pos = @ + 1, !.pc = "nextLoop"], mode)
  /\ OtherThanReduce

(* the awaited promise of the reducer application settles *)
RedStepSettleAsync ==
  /\ red.pc = "awaitStep"
  /\ red.shape = "asyncIterable"
  /\ \E outcome \in {"resolved", "rejected"} :
       red' = IF outcome = "resolved"
                THEN [red EXCEPT !.pc = "nextLoop", !.y = red.stepVal, !.inflight = @ - 1]
                ELSE Fail([red EXCEPT !.inflight = @ - 1], "reducer")
  /\ OtherThanReduce

(* p.cancel(): state.cancel(new Error('cancelled')) rejects the cancel     *)
(* token; the fold itself is left as it is                                 *)
RedCancel ==
  /\ red.hasCancel
  /\ ~red.cancelled
  /\ red' = [Settle(red, "rejected", Undef, "cancelled")
                 EXCEPT !.cancelled = TRUE, !.foldAtCancel = red.fold]
  /\ OtherThanReduce

RedNext ==
  \/ RedCall
  \/ RedInitResolve
  \/ RedFirst
  \/ RedLoop
  \/ RedStepSettle
  \/ RedCallAsync
  \/ RedInitResolveAsync
  \/ RedNextSeed
  \/ RedNextElement
  \/ RedStepSettleAsync
  \/ RedCancel

SpecReduce == RedInit /\ [][RedNext]_vars

(* ======================================================================= *)
(*            the reducers built by map and filter (transducers)           *)
(* ======================================================================= *)

(* the numbers the arrays hold, and pure, total mappers and predicates on  *)
(* them                                                                    *)
Nums == 0..2

Mappers == {"inc", "twice", "id"}

Predicates == {"isOdd", "positive", "always"}

Fun(f, n) ==
  CASE f = "inc" -> (n + 1) % 3
    [] f = "twice" -> (2 * n) % 3
    [] f = "id" -> n

Pred(predicate, n) ==
  CASE predicate = "isOdd" -> n % 2 = 1
    [] predicate = "positive" -> n > 0
    [] predicate = "always" -> TRUE

(* a reducer is the appending reducer r, or what map(f) or filter(p)       *)
(* returns when it is applied to a reducer                                 *)
AppendReducer == <<"append">>

RECURSIVE ApplyReducer(_, _, _)

(* mapReducer: (y, xi) => possiblePromiseThen(f(xi), res => reducer(y, res)) *)
MapReducerUnmapped(f, reducer, y, xi) == ApplyReducer(reducer, y, xi)

MapReducer(f, reducer, y, xi) == ApplyReducer(reducer, y, Fun(f, xi))

(* filterReducer: (y, xi) => possiblePromiseThen(predicate(xi),            *)
(*   res => res ? reducer(y, xi) : y)                                      *)
FilterReducer(predicate, reducer, y, xi) ==
  IF Pred(predicate, xi) THEN ApplyReducer(reducer, y, xi) ELSE y

ApplyReducer(reducer, y, xi) ==
  CASE reducer[1] = "append" -> Append(y, xi)
    [] reducer[1] = "map" -> MapReducer(reducer[2], reducer[3], y, xi)
    [] reducer[1] = "filter" -> FilterReducer(reducer[2], reducer[3], y, xi)

(* map(f)(x) and filter(predicate)(x) applied to a function x *)
MapOfReducer(f, reducer) == <<"map", f, reducer>>

FilterOfReducer(predicate, reducer) == <<"filter", predicate, reducer>>

(* mapArray and filterArray with a synchronous function *)
MapArray(f, xs) == [k \in DOMAIN xs |-> Fun(f, xs[k])]

FilterArray(predicate, xs) == SelectSeq(xs, LAMBDA n : Pred(predicate, n))

(* the composed reducer of an order: filter(p)(map(f)(r)) and              *)
(* map(f)(filter(p)(r))                                                    *)
Composed(order, f, predicate) ==
  IF order = "filterOfMap"
    THEN FilterOfReducer(predicate, MapOfReducer(f, AppendReducer))
    ELSE MapOfReducer(f, FilterOfReducer(predicate, AppendReducer))

TrInit ==
  /\ \E order \in {"filterOfMap", "mapOfFilter"}, f \in Mappers, predicate \in Predicates :
     \E xs \in SeqsUpTo(Nums, MaxLen) :
       tr = [ pc        |-> "fold",
              order     |-> order,
              f         |-> f,
              predicate |-> predicate,
              reducer   |-> Composed(order, f, predicate),
              xs        |-> xs,
              i         |-> 0,
              y         |-> <<>> ]
  /\ pool = Idle /\ mp = Idle /\ red = Idle
  /\ fl = Idle /\ fe = Idle /\ iso = Idle
  /\ ser = Idle /\ rc = Idle

(* reduce(reducer, [])(xs): one application of the composed reducer, all   *)
(* of them immediate since f, predicate and r are synchronous              *)
TrStep ==
  /\ tr.pc = "fold"
  /\ tr.i < Len(tr.xs)
  /\ tr' = [tr EXCEPT !.i = @ + 1,
                      !.y = ApplyReducer(tr.reducer, tr.y, tr.xs[tr.i + 1])]
  /\ UNCHANGED <<pool, mp, red, fl, fe, iso, ser, rc>>

(* the iterator is exhausted: reduce returns the accumulator *)
TrReturn ==
  /\ tr.pc = "fold"
  /\ tr.i = Len(tr.xs)
  /\ tr' = [tr EXCEPT !.pc = "done"]
  /\ UNCHANGED <<pool, mp, red, fl, fe, iso, ser, rc>>

TrNext == TrStep \/ TrReturn

SpecTransduce == TrInit /\ [][TrNext]_vars

(* ======================================================================= *)
(*                  filter(predicate)(x) over the shapes                   *)
(* ======================================================================= *)

(* what one application of the predicate gives: a truthy value, a falsy    *)
(* value, a promise, or an exception                                       *)
Oks == {"true", "false", "promise", "throw"}

(* isPromise(ok) *)
IsPromiseNever(ok) == FALSE

IsPromise(ok) == ok = "promise"

(* if (ok): a promise object is truthy *)
Truthy(ok) == ok \in {"true", "promise"}

(* the UTF-16 code units of a character: "b" stands for a character        *)
(* outside the basic plane, x.length counts it twice and x[i] reads one    *)
(* half of it                                                              *)
CodeUnits(c) == IF c = "b" THEN <<"b.high", "b.low">> ELSE <<c>>

RECURSIVE UnitsOf(_)
UnitsOf(x) == IF x = <<>> THEN <<>> ELSE CodeUnits(Head(x)) \o UnitsOf(Tail(x))

(* res[i] read as a condition: an index past the end of res is undefined *)
IndexAtAlways(res, i) == TRUE

IndexAt(res, i) == i \in DOMAIN res /\ Truthy(res[i])

(* x.filter((_, i) => res[i]) of filterArray and the loop of               *)
(* filterStringFromIndex, from position i on                               *)
RECURSIVE FilterFromIndex(_, _, _)
FilterFromIndex(res, x, i) ==
  IF i > Len(x) THEN <<>>
  ELSE (IF IndexAt(res, i) THEN <<x[i]>> ELSE <<>>) \o FilterFromIndex(res, x, i + 1)

(* the positions filterArray and filterTypedArray select from are the      *)
(* elements, those of filterString the code units                          *)
Positions(shape, x) == IF shape = "string" THEN UnitsOf(x) ELSE x

(* the member a keyed shape retains for its k-th element: y.add(xi),       *)
(* y.set(...xi), y[k] = x[k]                                               *)
Retained(shape, x, k) == IF shape = "set" THEN x[k] ELSE <<k, x[k]>>

(* the container itself, in the representation of a returned value *)
Container(shape, x) ==
  IF shape \in Keyed THEN {Retained(shape, x, k) : k \in DOMAIN x}
  ELSE Positions(shape, x)

(* the TypeError of filterIterable *)
PromiseTypeError == <<"TypeError", "f(xi) cannot return a Promise">>

FilterShapes == ArrayLike \cup Keyed \cup {"iterable"}

FilterInit ==
  /\ \E shape \in FilterShapes :
     \E x \in Inputs(shape) :
       fl = [ pc       |-> "call",
              shape    |-> shape,
              x        |-> x,
              oks      |-> <<>>,
              st       |-> [k \in DOMAIN x |-> "none"],
              inverted |-> FALSE,
              index    |-> <<>>,
              y        |-> {},
              yielded  |-> <<>>,
              pulls    |-> 0,
              returned |-> "none",
              outcome  |-> "none",
              value    |-> <<>>,
              error    |-> <<>> ]
  /\ pool = Idle /\ mp = Idle /\ red = Idle /\ tr = Idle
  /\ fe = Idle /\ iso = Idle
  /\ ser = Idle /\ rc = Idle

OtherThanFilter == UNCHANGED <<pool, mp, red, tr, fe, iso, ser, rc>>

(* the value of the finished operation: the selection by the index, or y *)
FilterValue(shape, x, index, y) ==
  IF shape \in Keyed THEN y ELSE FilterFromIndex(index, Positions(shape, x), 1)

(* filter(predicate)(x) for a shape walked at the call: createFilterIndex  *)
(* (filterArray, filterString, filterTypedArray), filterSet, filterMap,    *)
(* filterObject                                                            *)
FilterCallEager ==
  /\ fl.pc = "call"
  /\ fl.shape \in ArrayLike \cup Keyed
  /\ \E oks \in [DOMAIN fl.x -> Oks] :
       LET applied == Applied(fl.x, oks)
           threw   == \E k \in DOMAIN fl.x : oks[k] = "throw"
           isAsync == \E k \in DOMAIN fl.x : IsPromise(oks[k])
           y       == IF fl.shape \in Keyed
                        THEN {Retained(fl.shape, fl.x, k) :
                                k \in {j \in applied :
                                         ~IsPromise(oks[j]) /\ oks[j] # "throw" /\ Truthy(oks[j])}}
                        ELSE {}
       IN fl' = [fl EXCEPT
                   !.pc = IF threw THEN "thrown" ELSE "returned",
                   !.oks = [k \in applied |-> oks[k]],
                   !.st = [k \in DOMAIN fl.x |->
                             IF k \in applied /\ IsPromise(oks[k]) THEN "pending" ELSE "none"],
                   !.index = IF fl.shape \in ArrayLike /\ ~threw THEN oks ELSE <<>>,
                   !.y = y,
                   !.returned = IF threw THEN "thrown"
                                ELSE IF isAsync THEN "promise" ELSE "value",
                   !.outcome = IF threw \/ isAsync THEN "none" ELSE "resolved",
                   !.value = IF threw \/ isAsync THEN <<>>
                             ELSE FilterValue(fl.shape, fl.x, oks, y),
                   !.error = IF threw THEN ErrorOf(Len([k \in applied |-> oks[k]])) ELSE <<>>]
  /\ OtherThanFilter

(* filter(predicate)(x) for a generator: filterIterable returns a new      *)
(* generator object and pulls nothing                                      *)
FilterCallLazy ==
  /\ fl.pc = "call"
  /\ fl.shape = "iterable"
  /\ fl' = [fl EXCEPT !.pc = "returned", !.returned = "iterator"]
  /\ OtherThanFilter

(* one pull of the generator of filterIterable: the loop runs over the     *)
(* elements the predicate refuses up to element n, which it yields, or at  *)
(* which it throws, or up to the end of x                                  *)
FilterPull ==
  /\ fl.pc = "returned"
  /\ fl.shape = "iterable"
  /\ \E n \in (Len(fl.oks) + 1)..(Len(fl.x) + 1) :
     \E ok \in Oks \ {"false"} :
       LET refused == [k \in 1..(n - 1 - Len(fl.oks)) |-> "false"]
       IN IF n > Len(fl.x)
            THEN fl' = [fl EXCEPT !.pc = "done",
                                  !.oks = @ \o refused,
                                  !.pulls = @ + 1]
            ELSE fl' = [fl EXCEPT
                          !.pc = IF ok = "throw" \/ IsPromise(ok) THEN "thrown" ELSE @,
                          !.oks = @ \o refused \o <<ok>>,
                          !.pulls = @ + 1,
                          !.yielded = IF ok # "throw" /\ ~IsPromise(ok) /\ Truthy(ok)
                                        THEN Append(@, n) ELSE @,
                          !.error = IF ok = "throw" THEN ErrorOf(n)
                                    ELSE IF IsPromise(ok) THEN PromiseTypeError
                                    ELSE @]
  /\ OtherThanFilter

(* the promise of the predicate for element k settles and its reaction     *)
(* runs: Promise.all(filterIndex) stores the result in slot k, or the      *)
(* continuation res => res && y.add(xi) runs; the first rejection rejects  *)
(* the aggregate.  inverted records that a promise settled while an        *)
(* earlier element's was still pending                                     *)
FilterSettle(k) ==
  /\ fl.pc = "returned"
  /\ fl.shape \in ArrayLike \cup Keyed
  /\ fl.st[k] = "pending"
  /\ \E res \in {"true", "false", "rejected"} :
       fl' = [fl EXCEPT
                !.st[k] = res,
                !.inverted = @ \/ \E j \in 1..(k - 1) : fl.st[j] = "pending",
                !.index = IF res # "rejected" /\ fl.shape \in ArrayLike
                            THEN StoreAt(@, k, res) ELSE @,
                !.y = IF res = "true" /\ fl.shape \in Keyed
                        THEN @ \cup {Retained(fl.shape, fl.x, k)} ELSE @,
                !.outcome = IF @ = "none" /\ res = "rejected" THEN "rejected" ELSE @,
                !.error = IF fl.outcome = "none" /\ res = "rejected" THEN ErrorOf(k) ELSE @]
  /\ OtherThanFilter

(* every promise of the predicate has resolved: the aggregate resolves and *)
(* the continuation builds the result, res => x.filter((_, i) => res[i]),  *)
(* res => filterStringFromIndex(res, x), () => y                           *)
FilterResolve ==
  /\ fl.pc = "returned"
  /\ fl.returned = "promise"
  /\ fl.outcome = "none"
  /\ \A k \in DOMAIN fl.x : fl.st[k] \in {"none", "true", "false"}
  /\ fl' = [fl EXCEPT !.outcome = "resolved",
                      !.value = FilterValue(fl.shape, fl.x, fl.index, fl.y)]
  /\ OtherThanFilter

FilterNext ==
  \/ FilterCallEager
  \/ FilterCallLazy
  \/ FilterPull
  \/ \E k \in 1..(MaxLen + 1) : k \in DOMAIN fl.x /\ FilterSettle(k)
  \/ FilterResolve

SpecFilter == FilterInit /\ [][FilterNext]_vars

(* ======================================================================= *)
(*      one call of map, of filter or of map.pool, whichever is made       *)
(* ======================================================================= *)

CallInit == MapInit \/ FilterInit \/ PoolInit

CallNext ==
  \/ mp.pc # "idle" /\ MapNext
  \/ fl.pc # "idle" /\ FilterNext
  \/ pool.pc # "idle" /\ PoolNext

SpecCall == CallInit /\ [][CallNext]_vars

(* ======================================================================= *)
(*        the front-ends: the configuration call and the dispatch          *)
(* ======================================================================= *)

(* the three generations of the library in the repository: the two bundles *)
(* of src/index.js, and src/map.js with src/filter.js                      *)
Impls == {"v1.5.6", "v1.2.0", "v2"}

FrontEnds(impl) ==
  IF impl = "v2" THEN {"map", "filter", "map.pool"}
  ELSE {"map", "filter", "reduce", "flatMap", "map.pool"}

(* the first argument of a front-end: a function or something else *)
FnArgs == {"function", "number"}

(* the size argument of map.pool: a number, NaN, or a value of another     *)
(* type                                                                    *)
NoSize == [type |-> "undefined", nan |-> FALSE, val |-> 0]

SizeArgs ==
  {[type |-> "number", nan |-> FALSE, val |-> v] : v \in (-1)..MaxLimit}
    \cup {[type |-> "number", nan |-> TRUE, val |-> 0],
          [type |-> "string", nan |-> FALSE, val |-> 0],
          NoSize}

(* a value by what the shape predicates can see of it: what it is, and     *)
(* whether it has Symbol.iterator and Symbol.asyncIterator methods         *)
Bases == {"array", "string", "set", "map", "typedArray", "generator",
          "asyncGenerator", "object", "function", "other", "null"}

Values ==
  {x \in [base : Bases, iter : BOOLEAN, asyncIter : BOOLEAN] :
     /\ x.base \in {"array", "string", "set", "map", "typedArray", "generator"} => x.iter
     /\ x.base = "asyncGenerator" => x.asyncIter
     /\ x.base = "string" => ~x.asyncIter
     /\ x.base = "null" => (~x.iter /\ ~x.asyncIter)}

IsFunction(fn) == fn = "function"

(* isNumber(size) and not NaN: v1.5.6 tests isNaN apart, the isNumber of   *)
(* v1.2.0 includes it                                                      *)
IsNumber(size) == size.type = "number" /\ ~size.nan

(* typeof value.next == 'function' *)
HasNext(x) == x.base \in {"generator", "asyncGenerator"}

(* the shape predicates, by the name of the branch they guard *)
Holds(test, x) ==
  CASE test = "asyncIterable" -> x.asyncIter
    [] test = "iterable" -> x.iter
    [] test = "iteratorSync" -> HasNext(x) /\ x.iter
    [] test = "iteratorAsync" -> HasNext(x) /\ ~x.iter
    [] test = "hasFilter" -> x.base \in {"array", "typedArray"}
    [] OTHER -> x.base = test

(* the tests of a front-end's returned function, in the order of its if    *)
(* statements                                                              *)
Order(impl, op) ==
  CASE impl = "v2" /\ op = "map" ->
         <<"array", "function", "null", "iteratorSync", "iteratorAsync",
           "string", "set", "map", "object">>
    [] impl = "v2" /\ op = "filter" ->
         <<"array", "function", "null", "iteratorSync", "iteratorAsync",
           "string", "set", "map", "hasFilter", "object">>
    [] impl = "v2" /\ op = "map.pool" -> <<"array">>
    [] impl # "v2" /\ op \in {"map", "filter"} ->
         <<"asyncIterable", "array", "string", "set", "map", "typedArray",
           "iterable", "object", "function">>
    [] impl # "v2" /\ op = "reduce" -> <<"iterable", "asyncIterable", "object">>
    [] impl # "v2" /\ op = "flatMap" -> <<"array", "set", "function">>
    [] impl # "v2" /\ op = "map.pool" -> <<"array", "set", "map">>

(* the branch taken: the first test that holds; "none" when the chain      *)
(* falls through to its last statement                                     *)
LastMatch(order, x) ==
  IF \E k \in DOMAIN order : Holds(order[k], x)
    THEN order[CHOOSE k \in DOMAIN order :
                 /\ Holds(order[k], x)
                 /\ \A j \in (k + 1)..Len(order) : ~Holds(order[j], x)]
    ELSE "none"

FirstMatch(order, x) ==
  IF \E k \in DOMAIN order : Holds(order[k], x)
    THEN order[CHOOSE k \in DOMAIN order :
                 /\ Holds(order[k], x)
                 /\ \A j \in 1..(k - 1) : ~Holds(order[j], x)]
    ELSE "none"

(* what the configuration call throws *)
ConfigError(impl, op, fn, size) ==
  IF impl = "v2" THEN "none"
  ELSE IF op = "map.pool"
    THEN IF ~IsNumber(size) THEN "TypeError"
         ELSE IF size.val < 1 THEN "RangeError"
         ELSE IF ~IsFunction(fn) THEN "TypeError"
         ELSE "none"
  ELSE IF ~IsFunction(fn) THEN "TypeError" ELSE "none"

FrontInit ==
  /\ \E impl \in Impls :
     \E op \in FrontEnds(impl) :
     \E fn \in FnArgs :
     \E size \in IF op = "map.pool" THEN SizeArgs ELSE {NoSize} :
       fe = [ pc    |-> "configure",
              impl  |-> impl,
              op    |-> op,
              fn    |-> fn,
              size  |-> size,
              error |-> "none",
              x     |-> [base |-> "null", iter |-> FALSE, asyncIter |-> FALSE],
              route |-> "none" ]
  /\ pool = Idle /\ mp = Idle /\ red = Idle /\ tr = Idle
  /\ fl = Idle /\ iso = Idle
  /\ ser = Idle /\ rc = Idle

OtherThanFront == UNCHANGED <<pool, mp, red, tr, fl, iso, ser, rc>>

(* the configuration call: map(f), filter(predicate), reduce(fn, init),    *)
(* flatMap(func), map.pool(size, fn)                                       *)
FrontConfigure ==
  /\ fe.pc = "configure"
  /\ LET err == ConfigError(fe.impl, fe.op, fe.fn, fe.size)
     IN fe' = [fe EXCEPT !.pc = IF err = "none" THEN "configured" ELSE "thrown",
                         !.error = err]
  /\ OtherThanFront

(* the returned function is applied to a value and takes its branch *)
FrontApply ==
  /\ fe.pc = "configured"
  /\ \E x \in Values :
       fe' = [fe EXCEPT !.pc = "applied",
                        !.x = x,
                        !.route = FirstMatch(Order(fe.impl, fe.op), x)]
  /\ OtherThanFront

FrontNext ==
  \/ FrontConfigure
  \/ FrontApply

SpecFront == FrontInit /\ [][FrontNext]_vars

(* ======================================================================= *)
(*      two invocations of one configured map.pool(size, f) at a time      *)
(* ======================================================================= *)

Invocations == {1, 2}

(* the k-th element of the input of invocation v *)
Elem(v, k) == <<v, k>>

(* the objects const y = [] and const promises = new Set() of a call:      *)
(* mapPoolArray creates them in its body, so each call has its own         *)
OwnerShared(v) == 1

Owner(v) == v

(* an invocation that is running a job: between two awaits nothing else    *)
(* runs                                                                    *)
Running == {v \in Invocations : iso.inv[v].pc \in {"check", "apply"}}

(* promises and y as invocation v sees them *)
InFlight(v) == iso.sets[Owner(v)]

Output(v) == iso.outs[Owner(v)]

IsoInit ==
  /\ \E size \in 1..MaxLimit :
     \E len \in [Invocations -> 0..MaxLen] :
       iso = [ pc   |-> "configured",
               size |-> size,
               inv  |-> [v \in Invocations |->
                           [ pc    |-> "uncalled",
                             len   |-> len[v],
                             i     |-> 1,
                             yi    |-> [k \in 1..len[v] |-> "none"],
                             race  |-> {},
                             won   |-> FALSE,
                             all   |-> {},
                             value |-> <<>> ]],
               sets |-> [v \in Invocations |-> {}],
               outs |-> [v \in Invocations |-> <<>>] ]
  /\ pool = Idle /\ mp = Idle /\ red = Idle /\ tr = Idle
  /\ fl = Idle /\ fe = Idle
  /\ ser = Idle /\ rc = Idle

OtherThanIso == UNCHANGED <<pool, mp, red, tr, fl, fe, ser, rc>>

(* the configured function is called: the coroutine starts running *)
IsoCall(v) ==
  /\ Running = {}
  /\ iso.inv[v].pc = "uncalled"
  /\ iso' = [iso EXCEPT !.inv[v].pc = "check"]
  /\ OtherThanIso

(* the head of the loop: the loop test and the size test *)
IsoCheck(v) ==
  /\ iso.inv[v].pc = "check"
  /\ LET me == iso.inv[v] IN
     IF me.i > me.len
       THEN iso' = [iso EXCEPT !.inv[v].pc = "awaitAll",
                               !.inv[v].all = PromisesOf(Output(v))]
       ELSE IF PoolFull(InFlight(v), iso.size)
              THEN iso' = [iso EXCEPT !.inv[v].pc = "awaitRace",
                                      !.inv[v].race = InFlight(v),
                                      !.inv[v].won = FALSE]
              ELSE iso' = [iso EXCEPT !.inv[v].pc = "apply"]
  /\ OtherThanIso

(* const yi = f(xi) and the bookkeeping of its result *)
IsoApply(v) ==
  /\ iso.inv[v].pc = "apply"
  /\ LET me == iso.inv[v] IN
     \E mode \in {"sync", "async"} :
       IF mode = "sync"
         THEN iso' = [iso EXCEPT
                        !.outs[Owner(v)] = Push(@, <<"value", F(Elem(v, me.i))>>),
                        !.inv[v].i = @ + 1,
                        !.inv[v].pc = "check"]
         ELSE iso' = [iso EXCEPT
                        !.outs[Owner(v)] = Push(@, <<"promise", <<v, me.i>>>>),
                        !.sets[Owner(v)] = @ \cup {<<v, me.i>>},
                        !.inv[v].yi[me.i] = "pending",
                        !.inv[v].i = @ + 1,
                        !.inv[v].pc = "check"]
  /\ OtherThanIso

(* the promise of f for element k of invocation v resolves and the         *)
(* reaction promises.delete(p) runs, on the set of the call that made p;   *)
(* a race that holds p is won                                              *)
IsoResolve(v, k) ==
  /\ Running = {}
  /\ iso.inv[v].yi[k] = "pending"
  /\ iso' = [iso EXCEPT
               !.sets[Owner(v)] = @ \ {<<v, k>>},
               !.inv = [w \in Invocations |->
                          [iso.inv[w] EXCEPT
                             !.yi = IF w = v THEN [@ EXCEPT ![k] = "resolved"] ELSE @,
                             !.won = @ \/ (iso.inv[w].pc = "awaitRace"
                                             /\ <<v, k>> \in iso.inv[w].race)]]]
  /\ OtherThanIso

(* await Promise.race(promises) continues *)
IsoResumeRace(v) ==
  /\ Running = {}
  /\ iso.inv[v].pc = "awaitRace"
  /\ iso.inv[v].won
  /\ iso' = [iso EXCEPT !.inv[v].pc = "apply",
                        !.inv[v].race = {},
                        !.inv[v].won = FALSE]
  /\ OtherThanIso

(* Promise.all(y) resolves: every promise of y has resolved *)
IsoResumeAll(v) ==
  /\ Running = {}
  /\ iso.inv[v].pc = "awaitAll"
  /\ \A m \in iso.inv[v].all : iso.inv[m[1]].yi[m[2]] = "resolved"
  /\ LET y == Output(v) IN
     iso' = [iso EXCEPT
               !.inv[v].pc = "done",
               !.inv[v].value = [j \in DOMAIN y |->
                                   IF y[j][1] = "promise"
                                     THEN F(Elem(y[j][2][1], y[j][2][2]))
                                     ELSE y[j][2]]]
  /\ OtherThanIso

IsoNext ==
  \E v \in Invocations :
    \/ IsoCall(v)
    \/ IsoCheck(v)
    \/ IsoApply(v)
    \/ \E k \in 1..(MaxLen + 1) : k \in DOMAIN iso.inv[v].yi /\ IsoResolve(v, k)
    \/ IsoResumeRace(v)
    \/ IsoResumeAll(v)

SpecIso == IsoInit /\ [][IsoNext]_vars

(* ======================================================================= *)
(*                          map.series(f)(x)                               *)
(* ======================================================================= *)

(* the most items an array returned by a mapper holds *)
MaxInner == 2

(* what the mapper gives for element k: a value that is not an array, or   *)
(* an array of n items                                                     *)
Scalar(k) == [kind |-> "scalar", of |-> k, n |-> 0]

ArrayResult(k, n) == [kind |-> "array", of |-> k, n |-> n]

Item(k, j) == [kind |-> "item", of |-> k, n |-> j]

Results(k) == {Scalar(k)} \cup {ArrayResult(k, n) : n \in 0..MaxInner}

(* y.concat(res): Array.prototype.concat appends the items of an array     *)
(* argument, and appends any other argument itself                         *)
Concat(y, res) ==
  IF res.kind = "array" THEN y \o [j \in 1..res.n |-> Item(res.of, j)]
  ELSE Append(y, res)

SeriesInit ==
  /\ \E len \in 0..MaxLen :
       ser = [ pc       |-> "run",
               len      |-> len,
               i        |-> 1,
               y        |-> <<>>,
               st       |-> [k \in 1..len |-> "none"],
               res      |-> [k \in 1..len |-> Scalar(k)],
               returned |-> "none",
               outcome  |-> "none",
               value    |-> <<>> ]
  /\ pool = Idle /\ mp = Idle /\ red = Idle /\ tr = Idle
  /\ fl = Idle /\ fe = Idle /\ iso = Idle /\ rc = Idle

OtherThanSeries == UNCHANGED <<pool, mp, red, tr, fl, fe, iso, rc>>

(* one call of mapSeriesArray(f, x, i, y): the end test, or f(x[i]) and    *)
(* possiblePromiseThen, which recurses at once on a value and chains the   *)
(* recursion on a promise                                                  *)
SeriesStep ==
  /\ ser.pc = "run"
  /\ IF ser.i > ser.len
       THEN ser' = [ser EXCEPT
                      !.pc = "end",
                      !.returned = IF @ = "none" THEN "value" ELSE @,
                      !.outcome = "resolved",
                      !.value = ser.y]
       ELSE \E mode \in Modes :
            \E res \in Results(ser.i) :
              CASE mode = "sync" ->
                     ser' = [ser EXCEPT !.st[ser.i] = "sync",
                                        !.res[ser.i] = res,
                                        !.y = Concat(@, res),
                                        !.i = @ + 1]
                [] mode = "async" ->
                     ser' = [ser EXCEPT !.st[ser.i] = "pending",
                                        !.pc = "await",
                                        !.returned = IF @ = "none" THEN "promise" ELSE @]
                [] mode = "throw" ->
                     ser' = [ser EXCEPT !.st[ser.i] = "threw",
                                        !.pc = "end",
                                        !.returned = IF @ = "none" THEN "thrown" ELSE @,
                                        !.outcome = "rejected"]
  /\ OtherThanSeries

(* the promise of f(x[i]) settles: the continuation                        *)
(* res => mapSeriesArray(f, x, i + 1, y.concat(res)) is entered, or the    *)
(* chained promise rejects                                                 *)
SeriesSettle ==
  /\ ser.pc = "await"
  /\ \/ \E res \in Results(ser.i) :
          ser' = [ser EXCEPT !.st[ser.i] = "resolved",
                             !.res[ser.i] = res,
                             !.y = Concat(@, res),
                             !.i = @ + 1,
                             !.pc = "run"]
     \/ ser' = [ser EXCEPT !.st[ser.i] = "rejected",
                           !.pc = "end",
                           !.outcome = "rejected"]
  /\ OtherThanSeries

SeriesNext ==
  \/ SeriesStep
  \/ SeriesSettle

SpecSeries == SeriesInit /\ [][SeriesNext]_vars

(* ======================================================================= *)
(*     one call of the reducer built by map, filter or flatMap from r      *)
(* ======================================================================= *)

Kinds == {"map", "filter", "flatMap"}

(* what the mapper of flatMap returns: an array, or a value that is        *)
(* neither iterable nor a keyed object                                     *)
InnerResults ==
  {[kind |-> "array", items |-> xs] :
     xs \in {[j \in 1..n |-> V(j)] : n \in 0..MaxInner}}
    \cup {[kind |-> "scalar", items |-> <<V(1)>>]}

(* the accumulator as the init argument of reduce: init is undefined, or   *)
(* a given value                                                           *)
InitOf(acc) == IF IsUndefined(acc) THEN "none" ELSE "value"

ReducerInit ==
  /\ \E kind \in Kinds, acc \in {InitVal, Undef}, ok \in BOOLEAN :
     \E inner \in InnerResults :
       /\ kind # "filter" => ok
       /\ kind # "flatMap" => inner = [kind |-> "scalar", items |-> <<V(1)>>]
       /\ rc = [ pc       |-> "call",
                 kind     |-> kind,
                 acc      |-> acc,
                 xi       |-> V(1),
                 ok       |-> ok,
                 inner    |-> inner,
                 arg      |-> Undef,
                 fmode    |-> "none",
                 rmode    |-> "none",
                 calls    |-> <<>>,
                 inCall   |-> TRUE,
                 returned |-> "none",
                 outcome  |-> "none",
                 value    |-> Undef,
                 error    |-> "none" ]
  /\ pool = Idle /\ mp = Idle /\ red = Idle /\ tr = Idle
  /\ fl = Idle /\ fe = Idle /\ iso = Idle /\ ser = Idle

(* the argument mapReducer hands to the reducer: the result of f(xi) *)
MapArgElement(xi) == xi

MapArg(xi) == F(xi[2])

(* the call ends with a value, or its promise resolves *)
ReducerFinish(r, v) ==
  [r EXCEPT !.pc = "done", !.outcome = "resolved", !.value = v,
            !.returned = IF r.inCall THEN "value" ELSE @,
            !.inCall = FALSE]

(* the call throws, or its promise rejects *)
ReducerFail(r, err) ==
  [r EXCEPT !.pc = "failed", !.outcome = "rejected", !.error = err,
            !.returned = IF r.inCall THEN "thrown" ELSE @,
            !.inCall = FALSE]

(* the call returns a promise, if it has not returned yet *)
ReducerSuspend(r, pc) ==
  [r EXCEPT !.pc = pc, !.inCall = FALSE,
            !.returned = IF r.inCall THEN "promise" ELSE @]

(* f(xi), predicate(xi) or func(value), and possiblePromiseThen on it *)
ReducerApply ==
  /\ rc.pc = "call"
  /\ \E mode \in Modes :
     LET r1 == [rc EXCEPT !.fmode = mode] IN
       rc' = CASE mode = "sync" -> [r1 EXCEPT !.pc = "then"]
               [] mode = "async" -> ReducerSuspend(r1, "awaitF")
               [] mode = "throw" -> ReducerFail(r1, "mapper")
  /\ UNCHANGED <<pool, mp, red, tr, fl, fe, iso, ser>>

(* the promise of f(xi), predicate(xi) or func(value) settles *)
ReducerSettle ==
  /\ rc.pc = "awaitF"
  /\ \E outcome \in {"resolved", "rejected"} :
       rc' = IF outcome = "resolved" THEN [rc EXCEPT !.pc = "then"]
             ELSE ReducerFail(rc, "mapper")
  /\ UNCHANGED <<pool, mp, red, tr, fl, fe, iso, ser>>

(* the continuation: res => reducer(y, res) of mapReducer,                 *)
(* res => res ? reducer(y, xi) : y of filterReducer, and                   *)
(* reduce(reducer, aggregate) of flatMapReducer, which throws for a value  *)
(* that is not iterable, asynchronously iterable or a keyed object         *)
ReducerThen ==
  /\ rc.pc = "then"
  /\ CASE rc.kind = "map" ->
            /\ rc' = [rc EXCEPT !.pc = "callR", !.arg = MapArg(rc.xi)]
            /\ UNCHANGED red
       [] rc.kind = "filter" ->
            /\ rc' = IF rc.ok THEN [rc EXCEPT !.pc = "callR", !.arg = rc.xi]
                     ELSE ReducerFinish(rc, rc.acc)
            /\ UNCHANGED red
       [] rc.kind = "flatMap" ->
            IF rc.inner.kind = "array"
              THEN /\ rc' = [rc EXCEPT !.pc = "fold"]
                   /\ red' = RedStart("array", rc.inner.items, InitOf(rc.acc))
              ELSE /\ rc' = ReducerFail(rc, "invalid")
                   /\ UNCHANGED red
  /\ UNCHANGED <<pool, mp, tr, fl, fe, iso, ser>>

(* reducer(y, res) *)
ReducerCallR ==
  /\ rc.pc = "callR"
  /\ \E mode \in Modes :
     LET r1 == [rc EXCEPT !.calls = Append(@, [acc |-> rc.acc, elem |-> rc.arg]),
                          !.rmode = mode] IN
       rc' = CASE mode = "sync" -> ReducerFinish(r1, R(rc.acc, rc.arg))
               [] mode = "async" -> ReducerSuspend(r1, "awaitR")
               [] mode = "throw" -> ReducerFail(r1, "reducer")
  /\ UNCHANGED <<pool, mp, red, tr, fl, fe, iso, ser>>

(* the promise returned by the reducer settles *)
ReducerSettleR ==
  /\ rc.pc = "awaitR"
  /\ \E outcome \in {"resolved", "rejected"} :
       rc' = IF outcome = "resolved" THEN ReducerFinish(rc, R(rc.acc, rc.arg))
             ELSE ReducerFail(rc, "reducer")
  /\ UNCHANGED <<pool, mp, red, tr, fl, fe, iso, ser>>

(* the fold of flatMapReducer: reduce(reducer, aggregate)(res) *)
ReducerFold ==
  /\ rc.pc = "fold"
  /\ \/ RedCall
     \/ RedFirst
     \/ RedLoop
     \/ RedStepSettle

(* the fold has ended: its value, promise or error is the call's *)
ReducerFoldEnd ==
  /\ rc.pc = "fold"
  /\ red.pc \in {"done", "failed"}
  /\ rc' = [rc EXCEPT !.pc = red.pc,
                      !.outcome = red.outcome,
                      !.value = red.value,
                      !.error = red.error,
                      !.calls = [k \in DOMAIN red.calls |->
                                   [acc |-> red.calls[k].acc, elem |-> red.calls[k].elem]],
                      !.returned = IF rc.inCall THEN red.returned ELSE @,
                      !.inCall = FALSE]
  /\ UNCHANGED <<pool, mp, red, tr, fl, fe, iso, ser>>

ReducerNext ==
  \/ ReducerApply
  \/ ReducerSettle
  \/ ReducerThen
  \/ ReducerCallR
  \/ ReducerSettleR
  \/ ReducerFold
  \/ ReducerFoldEnd

SpecReducer == ReducerInit /\ [][ReducerNext]_vars

(* ---------------------------- claims: pool ----------------------------- *)

(* the mapper applications started whose promise is still pending *)
Outstanding == {k \in DOMAIN pool.x : pool.yi[k] = "pending"}

(* C1: in every run of map.pool(n, f)(c) with n >= 1, whatever the order   *)
(* in which the mapper's promises settle, the number of mapper             *)
(* applications started and not yet resolved never exceeds n               *)
C1_PoolBound == pool.pc # "idle" => Cardinality(Outstanding) <= pool.size

(* the scheduler waits for a slot with two or more applications pending   *)
C1_Witness ==
  /\ pool.pc = "awaitRace"
  /\ pool.size >= 2
  /\ Cardinality(Outstanding) = pool.size

(* C2: the array map.pool(n, f)(input) resolves to has the length of input *)
(* and holds at index i the resolved value of f(input[i]), whatever the    *)
(* resolution order and the mix of immediate and pending mapper results    *)
C2_PoolPositional ==
  (pool.pc = "done" /\ pool.variant = "array") =>
    /\ Len(pool.value) = Len(pool.x)
    /\ \A k \in DOMAIN pool.x : pool.value[k] = F(pool.x[k])

(* a resolved pool over three elements, immediate and pending results      *)
(* mixed, a later element resolved before an earlier one                   *)
C2_Witness ==
  /\ pool.pc = "done" /\ pool.variant = "array"
  /\ Len(pool.x) >= 3
  /\ \E k \in DOMAIN pool.y : pool.y[k][1] = "value"
  /\ \E a, b \in DOMAIN pool.order : a < b /\ pool.order[a] > pool.order[b]


(* ----------------------------- claims: map ----------------------------- *)

(* C3: map over an array resolves, or with a fully synchronous mapper      *)
(* returns, the array holding at every index i the value of f(c[i]),       *)
(* whatever the order in which the outstanding mapper promises resolve     *)
C3_MapArrayPositional ==
  (mp.pc = "returned" /\ mp.shape = "array" /\ mp.outcome = "resolved") =>
    /\ Len(mp.value) = Len(mp.x)
    /\ \A k \in DOMAIN mp.x : mp.value[k] = F(mp.x[k])

(* a resolved map over an array of three, immediate and pending points    *)
(* mixed, where a later promise settled before an earlier one             *)
C3_Witness ==
  /\ mp.pc = "returned" /\ mp.shape = "array" /\ mp.outcome = "resolved"
  /\ mp.returned = "promise"
  /\ Len(mp.x) >= 3
  /\ \E k \in DOMAIN mp.x : mp.modes[k] = "sync"
  /\ mp.inverted

(* some mapper application of this call returned a pending result *)
SomePending == \E k \in DOMAIN mp.modes : mp.modes[k] = "async"

(* C4 as stated: for every container, map(f)(c) is returned immediately    *)
(* and is no pending result when no mapper application returns one, and is *)
(* a pending result when at least one does                                 *)
C4_Original ==
  mp.pc = "returned" =>
    /\ ~SomePending => mp.returned # "promise"
    /\ SomePending => mp.returned = "promise"

(* C4 amended: for the shapes walked at the call (array, string, typed     *)
(* array, set, key-value map, keyed object) the result of map(f)(c) is a   *)
(* pending result exactly when a mapper application returned one; for a    *)
(* synchronous or asynchronous lazy sequence it is a lazy sequence, never  *)
(* a pending result, also when pulled elements are pending results         *)
C4_MapDuality ==
  mp.pc = "returned" =>
    /\ mp.shape \in ArrayLike \cup Keyed => (mp.returned = "promise" <=> SomePending)
    /\ mp.shape \in ArrayLike \cup Keyed /\ ~SomePending => mp.outcome = "resolved"
    /\ mp.shape \in Lazy => mp.returned \in {"iterator", "asyncIterator"}

(* a keyed object of three with exactly one pending mapper result *)
C4_Witness ==
  /\ mp.pc = "returned" /\ mp.shape = "object"
  /\ Len(mp.x) >= 3
  /\ Cardinality({k \in DOMAIN mp.modes : mp.modes[k] = "async"}) = 1
  /\ mp.returned = "promise"


(* ---------------------------- claims: reduce --------------------------- *)

(* C5: reducer applications are strictly sequential and left to right: an  *)
(* application begins only when no earlier one is still pending, it takes  *)
(* the element after the one of the previous application, and its          *)
(* accumulator is the resolved result of the previous application          *)
C5_ReduceSequential ==
  red.pc # "idle" =>
    /\ red.inflight <= 1
    /\ \A k \in DOMAIN red.calls :
         /\ red.calls[k].pending = 0
         /\ red.calls[k].elem = red.x[red.calls[k].at]
         /\ k > 1 => /\ red.calls[k].at = red.calls[k - 1].at + 1
                     /\ red.calls[k].acc = R(red.calls[k - 1].acc, red.calls[k - 1].elem)

(* a third application has begun after the second returned a promise that  *)
(* has resolved                                                            *)
C5_Witness ==
  /\ Len(red.calls) >= 3
  /\ red.pc \in {"asyncLoop", "nextLoop", "done"}
  /\ red.fold \in {"none", "resolved"}
  /\ red.stepVal # Undef

(* C6: reduce(f, initial) over an empty container succeeds with the        *)
(* initial value and applies the reducer not once, whether the initial     *)
(* value is given directly or computed, immediately or as a pending        *)
(* result, by an initializer                                               *)
C6_EmptyWithInitial ==
  (red.pc # "idle" /\ red.x = <<>> /\ red.init # "none") =>
    /\ red.pc # "failed"
    /\ red.calls = <<>>
    /\ red.pc \in {"call", "awaitInit", "nextFirst", "done"}
    /\ red.pc = "done" => (red.fold = "resolved" /\ red.foldValue = InitVal)
    /\ (red.pc = "done" /\ ~red.cancelled) => (red.outcome = "resolved" /\ red.value = InitVal)

(* an empty keyed object reduced to the value its pending initializer      *)
(* resolved to                                                             *)
C6_Witness ==
  /\ red.pc = "done" /\ red.x = <<>> /\ red.init = "asyncInitializer"
  /\ red.shape = "object"
  /\ red.returned = "promise" /\ red.value = InitVal

(* C7: reduce(f) without an initial value over an empty array, iterable or *)
(* keyed object fails at the call with the empty-reduction error and       *)
(* applies the reducer not once                                            *)
C7_EmptyWithoutInitial ==
  (red.shape \in SyncShapes /\ red.x = <<>> /\ red.init = "none" /\ red.pc # "call") =>
    /\ red.pc = "failed"
    /\ red.returned = "thrown"
    /\ red.error = "empty"
    /\ red.calls = <<>>

(* the call on an empty keyed object has thrown *)
C7_Witness ==
  /\ red.shape = "object" /\ red.x = <<>> /\ red.init = "none"
  /\ red.pc = "failed" /\ red.error = "empty"

(* C8 as stated: reduce(f) without an initial value over a non-empty       *)
(* array, iterable or keyed object, whose elements may be any value,       *)
(* the undefined value included, takes the first element as the initial    *)
(* accumulator, begins the fold at the second element and does not fail    *)
(* with the empty-reduction error                                          *)
C8_FirstElementSeeds ==
  (red.shape \in SyncShapes /\ red.init = "none" /\ Len(red.x) >= 1 /\ red.pc # "call") =>
    /\ red.error # "empty"
    /\ Len(red.calls) >= 1 => (red.calls[1].acc = red.x[1] /\ red.calls[1].at = 2)
    /\ (red.pc = "done" /\ Len(red.x) = 1) => red.value = red.x[1]

(* C9: the promise reduce returns for an asynchronous iterable carries     *)
(* cancel(); cancel() invoked while the fold has not completed rejects it  *)
(* with the cancellation error for good, and once the fold has completed   *)
(* it is resolved to the accumulated value and a later cancel() changes    *)
(* nothing                                                                 *)
C9_CancelRace ==
  (red.shape = "asyncIterable" /\ red.pc \notin {"idle", "call"}) =>
    /\ red.returned = "promise" /\ red.hasCancel
    /\ (red.cancelled /\ red.foldAtCancel = "none") =>
         (red.outcome = "rejected" /\ red.error = "cancelled")
    /\ red.fold = "resolved" /\ (red.cancelled => red.foldAtCancel = "resolved") =>
         (red.outcome = "resolved" /\ red.value = red.foldValue)

(* cancel() came while the fold was in progress; the fold has since        *)
(* completed with a value, and the returned promise stays rejected         *)
C9_Witness ==
  /\ red.shape = "asyncIterable"
  /\ red.cancelled /\ red.foldAtCancel = "none"
  /\ red.fold = "resolved" /\ Len(red.calls) >= 2
  /\ red.outcome = "rejected" /\ red.error = "cancelled"


(* -------------------------- claims: transducers ------------------------ *)

(* C10: for pure, total f and p, reducing xs from the empty array with     *)
(* filter(p)(map(f)(r)), r appending, yields map(f)(filter(p)(xs)), and    *)
(* reducing it with map(f)(filter(p)(r)) yields filter(p)(map(f)(xs))      *)
C10_TransducerEquivalence ==
  tr.pc = "done" =>
    /\ tr.order = "filterOfMap" =>
         tr.y = MapArray(tr.f, FilterArray(tr.predicate, tr.xs))
    /\ tr.order = "mapOfFilter" =>
         tr.y = FilterArray(tr.predicate, MapArray(tr.f, tr.xs))

(* the two orders are not interchangeable: a finished fold with            *)
(* filter(p)(map(f)(r)) whose result, some elements dropped and some       *)
(* mapped to another number, differs from filter(p)(map(f)(xs))            *)
C10_Witness ==
  /\ tr.pc = "done" /\ tr.order = "filterOfMap"
  /\ Len(tr.xs) >= 2
  /\ Len(tr.y) >= 1 /\ Len(tr.y) < Len(tr.xs)
  /\ tr.y # FilterArray(tr.predicate, tr.xs)
  /\ tr.y # FilterArray(tr.predicate, MapArray(tr.f, tr.xs))

(* --------------------------- claims: filter ---------------------------- *)
(* the positions of x whose predicate result, immediate or resolved, was   *)
(* truthy                                                                  *)
KeptPositions ==
  {k \in DOMAIN fl.oks : fl.oks[k] = "true" \/ fl.st[k] = "true"}

(* C11: filter over an array evaluates the predicate for every element     *)
(* and, once every result has resolved, returns exactly the elements at    *)
(* the positions whose result was truthy, in their original order,         *)
(* whatever the order in which the results resolved.                       *)
C11_FilterArraySelects ==
  (fl.shape = "array" /\ fl.pc = "returned") =>
    /\ DOMAIN fl.oks = DOMAIN fl.x
    /\ fl.outcome = "resolved" =>
         /\ Len(fl.value) = Cardinality(KeptPositions)
         /\ \A j \in DOMAIN fl.value :
              fl.value[j] = fl.x[CHOOSE k \in KeptPositions :
                                   Cardinality({i \in KeptPositions : i < k}) = j - 1]

(* a resolved filter of three elements whose results resolved out of      *)
(* order, with an element kept after one dropped                          *)
C11_Witness ==
  /\ fl.shape = "array"
  /\ fl.outcome = "resolved"
  /\ fl.inverted
  /\ Len(fl.x) = 3
  /\ fl.x[1] # fl.x[2]
  /\ KeptPositions = {2, 3}
  /\ fl.st[3] = "true"

(* C12: with a predicate that returns true for every element, the filter   *)
(* of an array, set, key-value map, keyed object or string equals the      *)
(* container, also for a string holding characters of more than one code   *)
(* unit.                                                                   *)
C12_FilterTrueIsIdentity ==
  ( /\ fl.shape \in {"array", "set", "map", "object", "string"}
    /\ fl.pc = "returned"
    /\ \A k \in DOMAIN fl.oks : fl.oks[k] = "true" ) =>
    /\ fl.outcome = "resolved"
    /\ fl.value = Container(fl.shape, fl.x)

(* C13: filtering a synchronous lazy sequence with a predicate that        *)
(* returns a pending result is a fatal error raised by the pull that       *)
(* reaches the offending element, not by the application of filter: the    *)
(* elements retained before it have been yielded, in order, and the        *)
(* offending element is never yielded.                                     *)
C13_LazyFilterPendingPredicate ==
  fl.shape = "iterable" =>
    /\ fl.pulls = 0 => (fl.pc \in {"call", "returned"} /\ fl.oks = <<>>)
    /\ \A k \in DOMAIN fl.oks :
         fl.oks[k] = "promise" =>
           /\ fl.pc = "thrown"
           /\ fl.error = PromiseTypeError
           /\ k = Len(fl.oks)
           /\ \A j \in DOMAIN fl.yielded : fl.yielded[j] # k
           /\ {fl.yielded[j] : j \in DOMAIN fl.yielded} =
                {i \in 1..(k - 1) : fl.oks[i] = "true"}
           /\ \A i, j \in DOMAIN fl.yielded : i < j => fl.yielded[i] < fl.yielded[j]

(* the third pull fails on a pending predicate result after two elements   *)
(* were yielded                                                            *)
C13_Witness ==
  /\ fl.shape = "iterable"
  /\ fl.pc = "thrown"
  /\ fl.error = PromiseTypeError
  /\ fl.pulls = 3
  /\ fl.yielded = <<1, 2>>
  /\ fl.oks[3] = "promise"

(* ------------------------- claims: map.pool shapes --------------------- *)

(* C14 as stated: map.pool(n, f) applied to an array, a set or a key-value *)
(* map returns a pending result even when every mapper application         *)
(* returns immediately, and resolves to a container of the same shape.     *)
C14_Original ==
  pool.pc = "done" => (pool.isAsync /\ pool.container.kind = pool.shape)

(* C14 amended: map.pool of src/index.js returns a pending result for an   *)
(* array, a set and a key-value map, also when every mapper application    *)
(* returns immediately, and resolves to a container of the same shape      *)
(* holding the mapper's results; setMapPool returns a pending result       *)
(* exactly when some mapper application returned one, and otherwise        *)
(* returns the set of results itself.                                      *)
C14_PoolPendingByImplementation ==
  /\ (pool.pc # "idle" /\ pool.variant = "array") =>
       /\ pool.isAsync
       /\ pool.pc = "done" =>
            /\ pool.container.kind = pool.shape
            /\ pool.container.members =
                 IF pool.shape = "array" THEN [k \in DOMAIN pool.x |-> F(pool.x[k])]
                 ELSE {F(pool.x[k]) : k \in DOMAIN pool.x}
  /\ (pool.pc \notin {"idle", "syncApply"} /\ pool.variant = "set") =>
       /\ pool.isAsync <=> \E k \in DOMAIN pool.x : pool.yi[k] \notin {"none", "threw"}
       /\ pool.pc = "done" =>
            pool.container = [kind |-> "set",
                              members |-> {F(pool.x[k]) : k \in DOMAIN pool.x}]

(* map.pool of src/index.js over a set of two or more elements has         *)
(* resolved to a set although no mapper application returned a promise     *)
C14_Witness ==
  /\ pool.pc = "done"
  /\ pool.variant = "array"
  /\ pool.shape = "set"
  /\ Len(pool.x) >= 2
  /\ \A k \in DOMAIN pool.x : pool.yi[k] = "none"
  /\ pool.container.kind = "set"

(* -------------------------- claims: front-ends ------------------------- *)

(* C15: map.pool(limit, f) fails at the configuration call, before a       *)
(* container is supplied and before any mapper application, when limit is  *)
(* not a number or is less than 1.                                         *)
C15_PoolLimitValidated ==
  ( /\ fe.op = "map.pool"
    /\ fe.pc # "configure"
    /\ (~IsNumber(fe.size) \/ fe.size.val < 1) ) =>
    /\ fe.pc = "thrown"
    /\ fe.error \in {"TypeError", "RangeError"}

(* C16: map, filter, reduce and flatMap called with a non-function fail at *)
(* the configuration call, before the returned function exists or is       *)
(* applied to a value.                                                     *)
C16_FunctionValidated ==
  ( /\ fe.op \in {"map", "filter", "reduce", "flatMap"}
    /\ fe.pc # "configure"
    /\ ~IsFunction(fe.fn) ) =>
    /\ fe.pc = "thrown"
    /\ fe.error = "TypeError"

(* ----------------------------- claims: errors -------------------------- *)

(* the applications of the running call that threw or whose promise        *)
(* rejected                                                                *)
FailedApplications ==
  CASE mp.pc # "idle" ->
         {k \in DOMAIN mp.modes : mp.modes[k] = "throw" \/ mp.st[k] = "rejected"}
    [] fl.pc # "idle" ->
         {k \in DOMAIN fl.oks : fl.oks[k] = "throw" \/ fl.st[k] = "rejected"}
    [] pool.pc # "idle" ->
         {k \in DOMAIN pool.x : pool.yi[k] \in {"threw", "rejected"}}
    [] OTHER -> {}

(* C17: when an application of the mapper or predicate throws, or its      *)
(* pending result rejects, the map, filter or map.pool over a container    *)
(* fails with the error of a failed application; the caller never gets a   *)
(* container, returned or resolved, also when results of other             *)
(* applications are already in the output.                                 *)
C17_NoPartialResult ==
  /\ (mp.pc # "idle" /\ mp.shape \notin Lazy) =>
       /\ FailedApplications # {} => (mp.outcome # "resolved" /\ mp.returned # "value")
       /\ (mp.pc = "thrown" \/ mp.outcome = "rejected") =>
            mp.error \in {ErrorOf(k) : k \in FailedApplications}
  /\ (fl.pc # "idle" /\ fl.shape # "iterable") =>
       /\ FailedApplications # {} => (fl.outcome # "resolved" /\ fl.returned # "value")
       /\ (fl.pc = "thrown" \/ fl.outcome = "rejected") =>
            fl.error \in {ErrorOf(k) : k \in FailedApplications}
  /\ pool.pc # "idle" =>
       /\ FailedApplications # {} => pool.pc # "done"
       /\ pool.pc = "failed" => pool.error \in {ErrorOf(k) : k \in FailedApplications}

(* a filter over a set is rejected with the error of its second element    *)
(* after the first and third were retained in y                            *)
C17_Witness ==
  /\ fl.pc # "idle"
  /\ fl.shape = "set"
  /\ fl.outcome = "rejected"
  /\ fl.error = ErrorOf(2)
  /\ Cardinality(fl.y) = 2
  /\ fl.st[3] = "true"

(* ------------------------ claims: key-value maps ----------------------- *)

(* C18: map over a key-value map applies the mapper to each value, not to  *)
(* the entry, and gives a new key-value map with exactly the same keys,    *)
(* each holding the mapper's result for its value.                         *)
C18_MapOverMapValues ==
  (mp.shape = "map" /\ mp.pc = "returned" /\ mp.outcome = "resolved") =>
    mp.value = {<<KeyName(k), F(mp.x[k])>> : k \in DOMAIN mp.x}

(* --------------------------- claims: dispatch -------------------------- *)

(* C19 as stated: map, filter and reduce all route a value by the          *)
(* first-match precedence asynchronous-iterable > array > string > set >   *)
(* key-value map > typed array > synchronous-iterable > plain keyed        *)
(* object > plain function.                                                *)
C19_Original ==
  (fe.pc = "applied" /\ fe.op \in {"map", "filter", "reduce"}) =>
    LET x == fe.x IN
    fe.route =
      IF x.asyncIter THEN "asyncIterable"
      ELSE IF x.base \in {"array", "string", "set", "map", "typedArray"} THEN x.base
      ELSE IF x.iter THEN "iterable"
      ELSE IF x.base \in {"object", "function"} THEN x.base
      ELSE "none"

(* C19 amended: map and filter of src/index.js route by that precedence;   *)
(* reduce of src/index.js tests synchronous-iterable, then                 *)
(* asynchronous-iterable, then plain keyed object, so it reduces an array  *)
(* by the generic-iterable path and a value that is both kinds of          *)
(* iterable as a synchronous one; map of src/map.js and filter of          *)
(* src/filter.js test array first and take an iterator that has            *)
(* Symbol.iterator as synchronous also when it is asynchronous-iterable.   *)
C19_DispatchByFrontEnd ==
  fe.pc = "applied" =>
    LET x == fe.x IN
    /\ (fe.impl # "v2" /\ fe.op \in {"map", "filter"}) =>
         fe.route =
           IF x.asyncIter THEN "asyncIterable"
           ELSE IF x.base \in {"array", "string", "set", "map", "typedArray"} THEN x.base
           ELSE IF x.iter THEN "iterable"
           ELSE IF x.base \in {"object", "function"} THEN x.base
           ELSE "none"
    /\ (fe.impl # "v2" /\ fe.op = "reduce") =>
         fe.route =
           IF x.iter THEN "iterable"
           ELSE IF x.asyncIter THEN "asyncIterable"
           ELSE IF x.base = "object" THEN "object"
           ELSE "none"
    /\ (fe.impl = "v2" /\ fe.op \in {"map", "filter"}) =>
         /\ x.base = "array" => fe.route = "array"
         /\ (HasNext(x) /\ x.iter) => fe.route = "iteratorSync"

(* map of src/index.js has routed an array that also has an                *)
(* asynchronous iterator method to the asynchronous-iterable branch        *)
C19_Witness ==
  /\ fe.pc = "applied"
  /\ fe.impl = "v1.5.6"
  /\ fe.op = "map"
  /\ fe.x.base = "array"
  /\ fe.x.asyncIter
  /\ fe.route = "asyncIterable"

(* --------------------------- claims: isolation ------------------------- *)

(* what invocation v owns and a step of the other must leave alone *)
StateOf(v) == <<iso.inv[v], InFlight(v), Output(v)>>

(* each invocation's in-flight set and output hold only its own promises,  *)
(* its pending applications never exceed the limit, and it resolves to     *)
(* the results of its own input, in order                                  *)
IsoOwnership ==
  \A v \in Invocations :
    /\ \A m \in InFlight(v) : m[1] = v
    /\ \A j \in DOMAIN Output(v) : Output(v)[j][1] = "promise" => Output(v)[j][2][1] = v
    /\ Cardinality({k \in DOMAIN iso.inv[v].yi : iso.inv[v].yi[k] = "pending"}) <= iso.size
    /\ iso.inv[v].pc = "done" =>
         iso.inv[v].value = [k \in 1..iso.inv[v].len |-> F(Elem(v, k))]

(* a step that changes something of one invocation leaves the other's      *)
(* record, in-flight set and output as they were                           *)
IsoFrame ==
  \A v \in Invocations :
    iso.inv[v]' # iso.inv[v] => StateOf(3 - v)' = StateOf(3 - v)

(* C20: two invocations of one configured map.pool(n, f) in progress at    *)
(* the same time are isolated: each has its own in-flight set and output,  *)
(* each respects n on its own, and a resolution of one neither frees a     *)
(* slot in the other nor writes a result into it.                          *)
C20_InvocationsIsolated == []IsoOwnership /\ [][IsoFrame]_vars

(* both invocations wait for a slot with the pool full, and a promise of   *)
(* the first then resolves, which lets the first continue and not the      *)
(* second                                                                  *)
C20_Witness ==
  /\ iso.pc = "configured"
  /\ iso.inv[1].pc = "awaitRace"
  /\ iso.inv[2].pc = "awaitRace"
  /\ iso.inv[1].won
  /\ ~iso.inv[2].won
  /\ Cardinality(InFlight(2)) = iso.size
  /\ Cardinality(InFlight(1)) = iso.size - 1

(* ---------------------------- claims: series --------------------------- *)

(* C21: map.series(f) over an array applies f to an element only after     *)
(* the result for the element before has resolved, so at most one          *)
(* application is outstanding, and the output array holds the resolved     *)
(* results in input order.                                                 *)
C21_SeriesSequential ==
  ser.pc # "idle" =>
    /\ Cardinality({k \in 1..ser.len : ser.st[k] = "pending"}) <= 1
    /\ \A k \in 1..ser.len :
         ser.st[k] # "none" => \A j \in 1..(k - 1) : ser.st[j] \in {"sync", "resolved"}
    /\ (ser.pc = "end" /\ ser.outcome = "resolved") =>
         ser.value = [k \in 1..ser.len |-> ser.res[k]]

(* ---------------------------- claims: in-flight set -------------------- *)

(* the entries of the in-flight set whose continuation has run *)
Removed == {k \in DOMAIN pool.x : pool.p[k] = "resolved"}

InFlightInv ==
  pool.pc # "idle" =>
    /\ pool.pc = "check" => Cardinality(pool.promises) <= pool.size
    /\ pool.promises \cap Removed = {}
    /\ pool.pc = "done" =>
         /\ pool.promises = {}
         /\ \A k \in DOMAIN pool.x : pool.yi[k] = "pending" \/ pool.p[k] # "none" => k \in Removed

InFlightStep ==
  pool.pc # "idle" =>
    \A k \in DOMAIN pool.x :
      /\ (k \in pool.promises /\ k \notin pool'.promises) =>
           /\ pool.yi[k] = "resolved"
           /\ pool.p[k] = "pending" /\ pool'.p[k] = "resolved"
           /\ pool'.promises = pool.promises \ {k}
      /\ (k \notin pool.promises /\ k \in pool'.promises) =>
           /\ pool.yi[k] = "none" /\ pool'.yi[k] = "pending"

(* C22: every pending result added to the in-flight set of map.pool is     *)
(* removed exactly once, by its own resolution continuation and by         *)
(* nothing else; the set never holds more than the limit when a            *)
(* scheduling decision starts; and it is empty when the pool's result      *)
(* resolves.                                                               *)
C22_InFlightSet == []InFlightInv /\ [][InFlightStep]_vars

C22_Witness ==
  /\ pool.pc = "done"
  /\ Cardinality(Removed) >= 2
  /\ Len(pool.order) >= 2 /\ pool.order[1] > pool.order[2]

(* ---------------------------- claims: admission ------------------------ *)

AdmissionInv ==
  pool.pc # "idle" =>
    /\ pool.pc = "apply" => Cardinality(pool.promises) < pool.size
    /\ pool.pc = "awaitRace" =>
         /\ Cardinality(pool.race) >= pool.size
         /\ (\E k \in pool.race : pool.p[k] # "pending") => pool.raceOut # "none"
         /\ pool.raceOut = "ok" => \E k \in pool.race : pool.p[k] = "resolved"
    /\ \A k \in DOMAIN pool.x :
         pool.yi[k] # "none" => k < pool.i \/ (k = pool.i /\ pool.pc = "failed")

AdmissionStep ==
  pool.pc # "idle" =>
    /\ pool'.i \in {pool.i, pool.i + 1}
    /\ \A k \in DOMAIN pool.x :
         (pool.yi[k] = "none" /\ pool'.yi[k] # "none") => k = pool.i
    /\ (pool.pc = "awaitRace" /\ pool'.pc # "awaitRace") =>
         /\ pool.raceOut # "none"
         /\ pool'.pc = IF pool.raceOut = "ok" THEN "apply" ELSE "failed"

(* C23: while the in-flight set holds concurrencyLimit entries the mapper  *)
(* is not applied to the next element until one entry has resolved, and    *)
(* it is applied as soon as any one of them resolves, the first to         *)
(* complete and not the first submitted; elements are dispatched in input  *)
(* order.                                                                  *)
C23_RaceAdmission == []AdmissionInv /\ [][AdmissionStep]_vars

(* the scheduler is admitted by the second entry while the first is still  *)
(* pending                                                                 *)
C23_Witness ==
  /\ pool.pc = "apply"
  /\ pool.size >= 2
  /\ \E k \in pool.promises : pool.yi[k] = "pending" /\ \E j \in Removed : k < j

(* ---------------------------- claims: termination ---------------------- *)

(* a mapper application threw, or a mapper promise rejected *)
MapperFailed == \E k \in DOMAIN pool.x : pool.yi[k] \in {"threw", "rejected"}

PoolResolved == pool.pc = "done"

(* C24: for every concurrency limit map.pool accepts, if every mapper      *)
(* promise eventually resolves then the result of map.pool(limit, f)(c)    *)
(* eventually resolves, and it resolves only after every element has been  *)
(* dispatched and every outstanding application has resolved.              *)
C24_PoolTerminates ==
  /\ <>(PoolResolved \/ MapperFailed)
  /\ [](PoolResolved =>
          /\ pool.i > Len(pool.x)
          /\ \A k \in DOMAIN pool.x : pool.yi[k] \in {"none", "resolved"})

(* ---------------------------- claims: cancellation --------------------- *)

(* C25: after cancel() on the pending result of reduce over an             *)
(* asynchronous iterable, the reducer application in progress is not       *)
(* interrupted, and the fold is abandoned at its next suspension point:    *)
(* no further element is pulled and no further reducer application begins. *)
C25_CancelAbandonsFold ==
  [][ red.pc # "idle" =>
        /\ (~red.cancelled /\ red'.cancelled) =>
             /\ red'.inflight = red.inflight
             /\ red'.stepVal = red.stepVal
             /\ red'.pc = red.pc
        /\ red.cancelled =>
             /\ red'.pos = red.pos
             /\ Len(red'.calls) = Len(red.calls) ]_vars

(* ---------------------------- claims: reducer forms -------------------- *)

(* C26: the reducer map(f)(r) calls r(accumulator, f(element)) with the    *)
(* resolved mapper result; the reducer filter(p)(r) calls                  *)
(* r(accumulator, element) when the resolved predicate is truthy and       *)
(* otherwise returns the accumulator without calling r; both return at     *)
(* once, with no pending result, when f or p and r are synchronous.        *)
C26_MapFilterReducers ==
  (rc.pc # "idle" /\ rc.kind \in {"map", "filter"}) =>
    LET passed == IF rc.kind = "map" THEN F(rc.xi[2]) ELSE rc.xi
        called == rc.kind = "map" \/ rc.ok
    IN /\ Len(rc.calls) <= 1
       /\ \A k \in DOMAIN rc.calls :
            /\ called
            /\ rc.calls[k] = [acc |-> rc.acc, elem |-> passed]
            /\ rc.fmode \in {"sync", "async"}
            /\ rc.pc \notin {"call", "awaitF"}
       /\ rc.pc = "done" =>
            /\ Len(rc.calls) = IF called THEN 1 ELSE 0
            /\ rc.outcome = "resolved"
            /\ rc.value = IF called THEN R(rc.acc, passed) ELSE rc.acc
            /\ (rc.fmode = "sync" /\ rc.rmode # "async") => rc.returned = "value"
       /\ rc.returned = "promise" => rc.fmode = "async" \/ rc.rmode = "async"

C26_Witness ==
  /\ rc.pc = "done" /\ rc.kind = "map"
  /\ rc.fmode = "async" /\ rc.rmode = "sync"
  /\ rc.returned = "promise" /\ Len(rc.calls) = 1

(* the accumulator after the first k items have been folded in with r *)
RECURSIVE FoldTo(_, _, _)

FoldTo(acc, items, k) ==
  IF k = 0 THEN acc ELSE R(FoldTo(acc, items, k - 1), items[k])

(* C27: the reducer flatMap(f)(r) folds the result of f(element) into the  *)
(* accumulator with r: no update for an empty inner iterable, one update   *)
(* for a scalar inner result, k updates in order for an inner iterable of  *)
(* k items, for every accumulator value.                                   *)
C27_FlatMapReducerFolds ==
  (/\ rc.pc \in {"done", "failed"}
   /\ rc.kind = "flatMap"
   /\ rc.error \notin {"mapper", "reducer"}) =>
    LET items == rc.inner.items IN
      /\ rc.outcome = "resolved"
      /\ rc.calls = [k \in 1..Len(items) |->
                       [acc |-> FoldTo(rc.acc, items, k - 1), elem |-> items[k]]]
      /\ rc.value = FoldTo(rc.acc, items, Len(items))

(* ---------------------------- claims: keyed shapes --------------------- *)

(* the mapped results of a set, a key-value map (value-wise, under the     *)
(* keys of the input) or a keyed object                                    *)
MappedResults(shape, x) ==
  CASE shape = "set" -> {F(x[k]) : k \in DOMAIN x}
    [] shape = "map" -> {<<KeyName(k), F(x[k])>> : k \in DOMAIN x}
    [] OTHER -> {<<k, F(x[k])>> : k \in DOMAIN x}

(* C28: map and filter over a set, a key-value map or a keyed object give  *)
(* a pending aggregate exactly when an application returned a pending      *)
(* result; when it resolves every insertion continuation has run, and the  *)
(* output holds exactly the mapped results, or for filter exactly the      *)
(* entries whose resolved predicate was truthy, whatever the order of      *)
(* resolution.                                                             *)
C28_KeyedAggregate ==
  /\ (mp.pc = "returned" /\ mp.shape \in Keyed) =>
       /\ mp.returned = "promise" <=> SomePending
       /\ mp.outcome = "resolved" =>
            /\ \A k \in DOMAIN mp.x : mp.modes[k] = "async" => k \in mp.ran
            /\ mp.value = MappedResults(mp.shape, mp.x)
  /\ (fl.pc = "returned" /\ fl.shape \in Keyed) =>
       /\ fl.returned = "promise" <=> \E k \in DOMAIN fl.oks : IsPromise(fl.oks[k])
       /\ fl.outcome = "resolved" =>
            /\ \A k \in DOMAIN fl.x : fl.st[k] # "pending"
            /\ fl.value = {Retained(fl.shape, fl.x, k) : k \in KeptPositions}

(* ---------------------------- claims: concurrent arrays ---------------- *)

ArrayJointInv ==
  /\ (mp.pc = "returned" /\ mp.shape = "array") =>
       /\ DOMAIN mp.modes = DOMAIN mp.x
       /\ (\E k \in DOMAIN mp.x : mp.st[k] = "pending") => mp.outcome # "resolved"
       /\ mp.outcome = "resolved" =>
            \A k \in DOMAIN mp.x : mp.modes[k] = "async" => k \in mp.ran
  /\ (fl.pc = "returned" /\ fl.shape = "array") =>
       /\ DOMAIN fl.oks = DOMAIN fl.x
       /\ (\E k \in DOMAIN fl.x : fl.st[k] = "pending") => fl.outcome # "resolved"

ArrayJointStep ==
  /\ (mp.pc = "call" /\ mp.shape = "array") =>
       /\ \A k \in DOMAIN mp.x : mp.st[k] = "none"
       /\ \A k \in DOMAIN mp'.modes :
            /\ \A j \in 1..(k - 1) : j \in DOMAIN mp'.modes /\ mp'.modes[j] # "throw"
            /\ mp'.modes[k] = "async" => mp'.st[k] = "pending"
  /\ (fl.pc = "call" /\ fl.shape = "array") =>
       /\ \A k \in DOMAIN fl.x : fl.st[k] = "none"
       /\ \A k \in DOMAIN fl'.oks :
            /\ \A j \in 1..(k - 1) : j \in DOMAIN fl'.oks /\ fl'.oks[j] # "throw"
            /\ IsPromise(fl'.oks[k]) => fl'.st[k] = "pending"

(* C29: map and filter over an array apply the mapper or predicate to      *)
(* every element, in index order, before any pending result is awaited;    *)
(* all the pending results are outstanding at the same time and are        *)
(* awaited jointly.                                                        *)
C29_ArrayConcurrent == []ArrayJointInv /\ [][ArrayJointStep]_vars

(* right after the call every element has been applied and three           *)
(* results are pending at once                                             *)
C29_Witness ==
  /\ mp.pc = "returned" /\ mp.shape = "array"
  /\ Len(mp.x) >= 3
  /\ mp.outcome = "none"
  /\ \A k \in DOMAIN mp.x : mp.st[k] = "pending"

(* ---------------------------- claims: fold continuation ---------------- *)

(* C30: when the reducer returns immediate values for some elements of an  *)
(* array, a keyed object or a synchronous generator and a pending result   *)
(* for a later one, the fold continues on the same iterator: every element *)
(* is passed to the reducer exactly once, in order, and the result is the  *)
(* left-to-right fold.                                                     *)
C30_FoldContinues ==
  (red.pc = "done" /\ red.shape \in SyncShapes) =>
    LET start == IF IsUndefined(X0(red.init)) THEN 2 ELSE 1
        y0    == IF start = 2 THEN red.x[1] ELSE X0(red.init)
        rest  == SubSeq(red.x, start, Len(red.x))
    IN /\ Len(red.calls) = Len(rest)
       /\ \A j \in DOMAIN red.calls :
            /\ red.calls[j].at = start + j - 1
            /\ red.calls[j].elem = rest[j]
            /\ red.calls[j].acc = FoldTo(y0, rest, j - 1)
       /\ red.value = FoldTo(y0, rest, Len(rest))

=============================================================================
